---- MODULE Spec2Model ----
\* Semantic fingerprinting, tagged comments and the AST-gated review/fix
\* loop of the codereview project.
\*
\* A Python str is modelled as a sequence of tokens.  A token is an atomic
\* piece of text: the newline "\n", the blank " ", a comment prefix or
\* suffix, a tag, or an opaque word.  '' is the empty sequence << >>.
EXTENDS Integers, Sequences, FiniteSets, TLC

\* ---------------------------------------------------------------- bounds
MaxRetry == 2
MaxLog == 2
MaxTextLen == 24
MaxPasses == 3

\* ------------------------------------------------------- python str model
NL == "\n"
SP == " "
\* the Windows line ending "\r\n", one token
CRLF == "\r\n"
Whitespace == {SP, NL, CRLF}

\* Python None and a raised ValueError, kept apart from every str.
None == <<"<None>">>
ValueError == <<"<ValueError>">>

\* Python evaluates an argument once, before the call: Val(F, e) is F(e) and
\* Val2(F, a, b) is F(a, b), with e, a and b evaluated once.
Val(F(_), e) == CHOOSE r \in {F(v) : v \in {e}} : TRUE
Val2(F(_, _), a, b) == CHOOSE r \in {F(v, w) : v \in {a}, w \in {b}} : TRUE

Last(s) == Val(LAMBDA v : v[Len(v)], s)
Front(s) == Val(LAMBDA v : SubSeq(v, 1, Len(v) - 1), s)

RECURSIVE lstrip(_, _)
lstrip(s, chars) ==
    Val(LAMBDA v : IF v # << >> /\ Head(v) \in chars
                   THEN lstrip(Tail(v), chars) ELSE v, s)

RECURSIVE rstrip(_, _)
rstrip(s, chars) ==
    Val(LAMBDA v : IF v # << >> /\ Last(v) \in chars
                   THEN rstrip(Front(v), chars) ELSE v, s)

\* str.strip(chars); str.strip() is strip(s, Whitespace)
strip(s, chars) == rstrip(lstrip(s, chars), chars)

startswith(s, p) ==
    Val2(LAMBDA v, q : Len(v) >= Len(q) /\ SubSeq(v, 1, Len(q)) = q, s, p)
endswith(s, p) ==
    Val2(LAMBDA v, q : Len(v) >= Len(q)
                       /\ SubSeq(v, Len(v) - Len(q) + 1, Len(v)) = q, s, p)

\* `p in s` for a non-empty p
contains(s, p) ==
    Val2(LAMBDA v, q : \E k \in 1..(Len(v) - Len(q) + 1) :
                           SubSeq(v, k, k + Len(q) - 1) = q, s, p)

\* str.split(sep) for a one-token separator: always at least one piece
RECURSIVE split(_, _)
split(s, sep) ==
    Val(LAMBDA v :
            IF \A k \in 1..Len(v) : v[k] # sep
            THEN <<v>>
            ELSE Val(LAMBDA k : <<SubSeq(v, 1, k - 1)>>
                                \o split(SubSeq(v, k + 1, Len(v)), sep),
                     CHOOSE j \in 1..Len(v) :
                         v[j] = sep /\ \A m \in 1..(j - 1) : v[m] # sep),
        s)

\* str.splitlines(): "\n" and "\r\n" both end a line, and there is no piece
\* for the text after a final line ending
splitlines(s) ==
    Val(LAMBDA p : IF Last(p) = << >> THEN Front(p) ELSE p,
        Val(LAMBDA v : split([k \in 1..Len(v) |-> IF v[k] = CRLF THEN NL ELSE v[k]], NL),
            s))

\* '\n'.join(list)
RECURSIVE join(_)
join(l) ==
    Val(LAMBDA v : IF v = << >> THEN << >>
                   ELSE IF Len(v) = 1 THEN v[1]
                   ELSE v[1] \o <<NL>> \o join(Tail(v)), l)

\* list.insert(k, x) for 0 <= k <= len(list)
insert(l, k, x) ==
    Val2(LAMBDA v, j : SubSeq(v, 1, j) \o <<x>> \o SubSeq(v, j + 1, Len(v)), l, k)

Max(a, b) == Val2(LAMBDA v, w : IF v > w THEN v ELSE w, a, b)
Min(a, b) == Val2(LAMBDA v, w : IF v < w THEN v ELSE w, a, b)

\* ------------------------------------------------------ LanguageGrammar
\* Parsers with a line form ("python"), with both forms ("c") and with the
\* block form only ("html").
Parsers == {"python", "c", "html"}

\* Parsers, the parser with the line form only ("bash") and a TheParser whose
\* three hooks all return '' ("plain": no registered parser is one)
Grammars == Parsers \cup {"bash", "plain"}

line_comment_prefix(parser) ==
    CASE parser = "python" -> <<"#">>
      [] parser = "c" -> <<"//">>
      [] parser = "html" -> << >>
      [] parser = "bash" -> <<"#">>
      [] parser = "plain" -> << >>

block_comment_prefix(parser) ==
    CASE parser = "python" -> <<"QQQ">>
      [] parser = "c" -> <<"/*">>
      [] parser = "html" -> <<"<!--">>
      [] parser = "bash" -> << >>
      [] parser = "plain" -> << >>

block_comment_suffix(parser) ==
    CASE parser = "python" -> <<"QQQ">>
      [] parser = "c" -> <<"*/">>
      [] parser = "html" -> <<"-->">>
      [] parser = "bash" -> << >>
      [] parser = "plain" -> << >>

\* ------------------------------------------------------- CommentTagger
RECURSIVE line_comment(_, _, _, _), block_comment(_, _, _, _)

line_comment_lines(lines, prefix, tag) ==
    Val2(LAMBDA ls, pt :
            [k \in 1..Len(ls) |->
                IF strip(ls[k], Whitespace) # << >>
                THEN pt \o <<SP>> \o ls[k]
                ELSE ls[k]],
         lines, prefix \o tag)

line_comment(parser, comment, tag, force) ==
    Val(LAMBDA prefix :
            IF prefix = << >>
            THEN IF force THEN None ELSE block_comment(parser, comment, tag, TRUE)
            ELSE join(line_comment_lines(split(comment, NL), prefix, tag)),
        line_comment_prefix(parser))

\* block_comment without the fallback to the line form
block_comment_without_fallback(parser, comment, tag, force) ==
    Val2(LAMBDA prefix, c :
            IF prefix = << >>
            THEN None
            ELSE IF contains(c, block_comment_suffix(parser)) THEN ValueError
            ELSE Val(LAMBDA space : prefix \o tag \o space \o c \o space
                                    \o block_comment_suffix(parser),
                     IF contains(c, <<NL>>) THEN <<NL>> ELSE <<SP>>),
         block_comment_prefix(parser), comment)

block_comment(parser, comment, tag, force) ==
    Val2(LAMBDA prefix, c :
            IF prefix = << >>
            THEN IF force THEN None ELSE line_comment(parser, c, tag, TRUE)
            ELSE IF contains(c, block_comment_suffix(parser)) THEN ValueError
            ELSE Val(LAMBDA space : prefix \o tag \o space \o c \o space
                                    \o block_comment_suffix(parser),
                     IF contains(c, <<NL>>) THEN <<NL>> ELSE <<SP>>),
         block_comment_prefix(parser), comment)

\* a negative index taken as the first line
insert_comment_from_start(parser, source, line, comment, tag, block) ==
    Val2(LAMBDA c, lines :
            IF c = None \/ c = ValueError THEN ValueError
            ELSE join(insert(lines,
                             Max(0, Min(line,
                                        Len(lines))),
                             c)),
         IF block THEN block_comment(parser, comment, tag, FALSE)
                  ELSE line_comment(parser, comment, tag, FALSE),
         splitlines(source))

insert_comment(parser, source, line, comment, tag, block) ==
    Val2(LAMBDA c, lines :
            IF c = None \/ c = ValueError THEN ValueError
            ELSE join(insert(lines,
                             Max(0, Min(IF line < 0 THEN line + Len(lines) ELSE line,
                                        Len(lines))),
                             c)),
         IF block THEN block_comment(parser, comment, tag, FALSE)
                  ELSE line_comment(parser, comment, tag, FALSE),
         splitlines(source))

\* the block form tried after the line form, for every language
extract_line_comment_either_form(parser, line0, tag) ==
    Val(LAMBDA line :
            Val2(LAMBDA lp, bp :
                    IF line_comment_prefix(parser) # << >> /\ startswith(line, lp)
                    THEN strip(SubSeq(line, Len(lp) + 1, Len(line)), Whitespace)
                    ELSE IF block_comment_prefix(parser) # << >>
                            /\ startswith(line, bp)
                            /\ endswith(line, block_comment_suffix(parser))
                    THEN strip(SubSeq(line, Len(bp) + 1,
                                      Len(line) - Len(block_comment_suffix(parser))),
                               Whitespace)
                    ELSE None,
                 line_comment_prefix(parser) \o tag, block_comment_prefix(parser) \o tag),
        strip(line0, Whitespace))

extract_line_comment(parser, line0, tag) ==
    Val(LAMBDA line :
            IF line_comment_prefix(parser) # << >>
            THEN Val(LAMBDA prefix :
                        IF startswith(line, prefix)
                        THEN strip(SubSeq(line, Len(prefix) + 1, Len(line)), Whitespace)
                        ELSE None,
                     line_comment_prefix(parser) \o tag)
            ELSE IF block_comment_prefix(parser) # << >>
            THEN Val2(LAMBDA prefix, suffix :
                        IF startswith(line, prefix) /\ endswith(line, suffix)
                        THEN strip(SubSeq(line, Len(prefix) + 1,
                                          Len(line) - Len(suffix)), Whitespace)
                        ELSE None,
                      block_comment_prefix(parser) \o tag, block_comment_suffix(parser))
            ELSE None,
        strip(line0, Whitespace))

\* extract_comments returns (comments, source) as a record
RECURSIVE extract_scan(_, _, _, _, _), extract_scan_dropping_blank(_, _, _, _, _)

\* the scan dropping the blank lines it does not match
extract_scan_dropping_blank(parser, lines, tag, i, next) ==
    IF i >= next THEN [comments |-> << >>, kept |-> << >>]
    ELSE Val2(LAMBDA c, r :
                IF c = None
                THEN [comments |-> r.comments,
                      kept |-> IF strip(lines[i + 1], Whitespace) = << >> THEN r.kept
                               ELSE <<lines[i + 1]>> \o r.kept]
                ELSE [comments |-> <<c>> \o r.comments, kept |-> r.kept],
              extract_line_comment(parser, strip(lines[i + 1], Whitespace), tag),
              extract_scan_dropping_blank(parser, lines, tag, i + 1, next))

extract_scan(parser, lines, tag, i, next) ==
    IF i >= next THEN [comments |-> << >>, kept |-> << >>]
    ELSE Val2(LAMBDA c, r :
                IF c = None
                THEN [comments |-> r.comments, kept |-> <<lines[i + 1]>> \o r.kept]
                ELSE [comments |-> <<c>> \o r.comments, kept |-> r.kept],
              extract_line_comment(parser, strip(lines[i + 1], Whitespace), tag),
              extract_scan(parser, lines, tag, i + 1, next))

\* the empty range normalized like every other result
extract_comments_normalizing(parser, source, tag, first, last0) ==
    Val(LAMBDA lines :
            Val(LAMBDA last :
                    IF last < first THEN [comments |-> << >>, source |-> join(lines)]
                    ELSE Val(LAMBDA r :
                                [comments |-> r.comments,
                                 source |-> join(SubSeq(lines, 1, first) \o r.kept
                                                 \o SubSeq(lines, last + 2, Len(lines)))],
                             extract_scan(parser, lines, tag, first, last + 1)),
                IF last0 < 0 THEN last0 + Len(lines)
                ELSE IF last0 >= Len(lines) THEN Len(lines) - 1 ELSE last0),
        splitlines(source))

extract_comments(parser, source, tag, first, last0) ==
    Val(LAMBDA lines :
            Val(LAMBDA last :
                    IF last < first THEN [comments |-> << >>, source |-> source]
                    ELSE Val(LAMBDA r :
                                [comments |-> r.comments,
                                 source |-> join(SubSeq(lines, 1, first) \o r.kept
                                                 \o SubSeq(lines, last + 2, Len(lines)))],
                             extract_scan(parser, lines, tag, first, last + 1)),
                IF last0 < 0 THEN last0 + Len(lines)
                ELSE IF last0 >= Len(lines) THEN Len(lines) - 1 ELSE last0),
        splitlines(source))

\* --------------------------------------------------------- Fingerprinter
\* The syntax tree of the external grammar, reduced to what parse() keeps
\* of it: the tokens that are neither blanks nor part of a comment.  A line
\* comment runs from the line prefix to the end of the line, a block comment
\* from the block prefix to the block suffix (python has no block comment:
\* its block form is a string expression).
\* the part of s that follows the first occurrence of p, << >> when p is absent
after(s, p) ==
    Val(LAMBDA v :
            IF contains(v, p)
            THEN Val(LAMBDA k : SubSeq(v, k + Len(p), Len(v)),
                     CHOOSE j \in 1..Len(v) :
                         /\ startswith(SubSeq(v, j, Len(v)), p)
                         /\ \A m \in 1..(j - 1) : ~startswith(SubSeq(v, m, Len(v)), p))
            ELSE << >>,
        s)

\* TRUE when a comment starts at s
comment_start(parser, s) ==
    \/ line_comment_prefix(parser) # << >> /\ startswith(s, line_comment_prefix(parser))
    \/ parser # "python" /\ startswith(s, block_comment_prefix(parser))

RECURSIVE node_to_dict(_, _, _)
node_to_dict(parser, s, mode) ==
    Val2(LAMBDA v, m :
            IF v = << >> THEN << >>
            ELSE IF m = "line" THEN node_to_dict(parser, after(v, <<NL>>), "code")
            ELSE IF m = "block"
            THEN node_to_dict(parser, after(v, block_comment_suffix(parser)), "code")
            ELSE IF \A k \in 1..Len(v) : ~comment_start(parser, SubSeq(v, k, Len(v)))
            THEN SelectSeq(v, LAMBDA t : t \notin Whitespace)
            ELSE Val(LAMBDA k :
                        SelectSeq(SubSeq(v, 1, k - 1), LAMBDA t : t \notin Whitespace)
                        \o node_to_dict(parser, SubSeq(v, k + 1, Len(v)),
                                        IF line_comment_prefix(parser) # << >>
                                           /\ startswith(SubSeq(v, k, Len(v)),
                                                         line_comment_prefix(parser))
                                        THEN "line" ELSE "block"),
                     CHOOSE j \in 1..Len(v) :
                         /\ comment_start(parser, SubSeq(v, j, Len(v)))
                         /\ \A n \in 1..(j - 1) :
                               ~comment_start(parser, SubSeq(v, n, Len(v)))),
         s, mode)

parse(parser, source) == <<parser>> \o node_to_dict(parser, source, "code")

\* ------------------------------------------------------------ AI payload
\* A JSON value that is neither a str nor a list (a number, say).
Int42 == <<"<42>">>

\* `data is None`
NoneData ==
    [none |-> TRUE, keys |-> {}, error |-> << >>, overview |-> << >>,
     review |-> << >>, design |-> << >>, notes |-> << >>, issues |-> << >>,
     imperfections |-> << >>, impediments |-> << >>, output |-> << >>]

\* a list field holding a value that is not a list
NotAList == <<Int42>>

\* dict.get(key) of a str field
get(data, key) == IF key \in data.keys THEN data[key] ELSE None

falsy(v) == v \in {None, << >>}
isstr(v) == v \notin {None, Int42}

\* `not data.get(key)` and `isinstance(data.get(key), list)` of a list field
falsy_list(data, key) == key \notin data.keys \/ data[key] = << >>
islist(data, key) == key \in data.keys /\ data[key] # NotAList

\* ------------------------------------------------------------ TheReviewer
ERR_REQUIRED == "[ERR] _data_check: required keys not found"
ERR_ERROR == "[ERR] _data_check: <error>"
ERR_LIST == "[ERR] _data_check: must be a string list"
ERR_OUTPUT == "[ERR] _data_check: <output> must be a string"
WARN_MISMATCH == "[WARNING] _data_check: <output> does not match the input expected"
ERR_CLI == "[ERR] subprocess.run"
NoErr == "None"

default_list(data, key) ==
    IF falsy_list(data, key)
    THEN [data EXCEPT ![key] = << >>, !.keys = @ \cup {key}]
    ELSE data

bad_list(data, key) == ~falsy_list(data, key) /\ ~islist(data, key)

\* _data_check(data, parser, expected): with_parser is `parser is not None`,
\* expected is None when the caller passes none.
data_check(data, with_parser, parser, expected) ==
    LET d == default_list(default_list(default_list(default_list(
                 data, "notes"), "issues"), "imperfections"), "impediments")
    IN
    IF ~falsy(get(data, "error")) /\ strip(get(data, "error"), Whitespace) # << >>
    THEN [data |-> NoneData, err |-> ERR_ERROR]
    ELSE IF ~({"overview", "review"} \subseteq data.keys)
    THEN [data |-> NoneData, err |-> ERR_REQUIRED]
    ELSE IF bad_list(data, "notes") \/ bad_list(data, "issues")
            \/ bad_list(data, "imperfections") \/ bad_list(data, "impediments")
    THEN [data |-> NoneData, err |-> ERR_LIST]
    ELSE IF with_parser /\ ~isstr(get(data, "output"))
    THEN [data |-> NoneData, err |-> ERR_OUTPUT]
    ELSE IF with_parser /\ expected # None /\ parse(parser, d.output) # expected
    THEN [data |-> d, err |-> WARN_MISMATCH]
    ELSE [data |-> d, err |-> NoErr]

\* TheReviewer.exec: cli is the (data, err) pair returned by the AI executor
exec(cli, with_parser, parser, expected) ==
    IF cli.data.none \/ cli.err # NoErr
    THEN [data |-> NoneData, err |-> cli.err]
    ELSE data_check(cli.data, with_parser, parser, expected)

\* ---------------------------------------------------------- TheReviewFile
REVIEW_TAG == <<"\\/">>
REQ_TAG == <<"\\%">>
LANG == <<"$lang:">>
English == <<"English">>
HEADER == <<"---------- Reviewed by: codex @ now">>
CLOSING == <<"----------">>

Title(key) == <<"---------- [" \o key \o "]">>

\* the first review line that starts with '$lang:' decides; None when absent
RECURSIVE lang_directive(_)
lang_directive(reviews) ==
    IF reviews = << >> THEN None
    ELSE IF startswith(Head(reviews), LANG)
    THEN strip(SubSeq(Head(reviews), Len(LANG) + 1, Len(Head(reviews))), Whitespace)
    ELSE lang_directive(Tail(reviews))

\* _load: the request built from the artifact text and the context
load(parser, src_code, context) ==
    LET r == extract_comments(parser, src_code, REVIEW_TAG, 0, -1)
        q == extract_comments(parser, r.source, REQ_TAG, 0, -1)
        d == lang_directive(r.comments)
    IN [comment_language |-> IF d = None \/ d = << >> THEN English
                             ELSE split(d, SP)[1],
        prior_review |-> join(r.comments),
        requirements |-> join(q.comments),
        context |-> context,
        input |-> strip(q.source, {NL})]

comment_section(comment, title) == Title(title) \o <<NL>> \o comment \o <<NL>>

coment_text(data, key, title) ==
    LET text == get(data, key) IN
    IF ~isstr(text) \/ text = << >> THEN << >> ELSE comment_section(text, title)

RECURSIVE non_blank(_)
non_blank(l) ==
    IF l = << >> THEN << >>
    ELSE IF isstr(Head(l)) /\ strip(Head(l), Whitespace) # << >>
    THEN <<Head(l)>> \o non_blank(Tail(l))
    ELSE non_blank(Tail(l))

coment_list(data, key, title) ==
    LET l == IF key \in data.keys THEN data[key] ELSE << >>
        text == strip(join(non_blank(l)), Whitespace)
    IN IF text = << >> THEN << >> ELSE comment_section(text, title)

\* the metadata text assembled by _update
update_txt(lang, data) ==
    HEADER \o <<NL>>
    \o LANG \o <<SP>> \o lang \o <<NL>>
    \o coment_text(data, "overview", "Overview")
    \o coment_text(data, "review", "Review")
    \o coment_text(data, "design", "Design")
    \o coment_list(data, "notes", "Notes")
    \o coment_list(data, "issues", "Issues")
    \o coment_list(data, "imperfections", "Imperfections")
    \o coment_list(data, "impediments", "Impediments")
    \o CLOSING \o <<NL>>

\* _update inserting the requirements after the metadata
update_source_requirements_last(lang, parser, data, requirements) ==
    LET s0 == strip(data.output, {NL})
        s1 == extract_comments(parser, s0, REVIEW_TAG, 0, -1).source
        s2 == extract_comments(parser, s1, REQ_TAG, 0, -1).source
        s3 == insert_comment(parser, s2, 0, update_txt(lang, data), REVIEW_TAG, FALSE)
    IN IF s3 = ValueError THEN ValueError
       ELSE IF requirements # << >>
       THEN insert_comment(parser, s3, 0, requirements \o <<NL>>, REQ_TAG, FALSE)
       ELSE s3

\* the artifact text written by _update, or ValueError when a comment
\* cannot be rendered
update_source(lang, parser, data, requirements) ==
    LET s0 == strip(data.output, {NL})
        s1 == extract_comments(parser, s0, REVIEW_TAG, 0, -1).source
        s2 == extract_comments(parser, s1, REQ_TAG, 0, -1).source
        s3 == IF requirements # << >>
              THEN insert_comment(parser, s2, 0, requirements \o <<NL>>, REQ_TAG, FALSE)
              ELSE s2
    IN IF s3 = ValueError THEN ValueError
       ELSE insert_comment(parser, s3, 0, update_txt(lang, data), REVIEW_TAG, FALSE)

\* TheReviewFix._to_fix
to_fix_ignoring_impediments(review) == contains(review, Title("Issues"))

to_fix(review) ==
    IF ~contains(review, Title("Issues")) THEN FALSE
    ELSE IF contains(review, Title("Impediments")) THEN FALSE
    ELSE TRUE

\* the summary of a fix: bug fix and discussion
fix_summary(data) ==
    LET bug_fix == IF "overview" \in data.keys THEN data.overview ELSE << >>
        discussion == IF "review" \in data.keys THEN data.review ELSE << >>
    IN (IF bug_fix # << >> THEN <<"[Bug fix]", NL>> \o bug_fix \o <<NL>> ELSE << >>)
       \o (IF discussion # << >> THEN <<"[Discussion]", NL>> \o discussion \o <<NL>> ELSE << >>)

\* ------------------------------------------- CommentTagger: comment()
\* ValueError("Line ... is out of range")
LineOutOfRange == <<"<ValueError: out of range>">>

\* a negative index taken as it is
from_end_ignored(line, count) == line
\* a negative index counts backward from the end
from_end(line, count) == IF line < 0 THEN line + count ELSE line

\* comment(): append the comment to the end of the line
comment(parser, source, line0, text, tag) ==
    Val(LAMBDA lines :
            Val(LAMBDA line :
                    IF line < 0 \/ line >= Len(lines) THEN LineOutOfRange
                    ELSE Val(LAMBDA c :
                                IF c = None \/ c = ValueError THEN ValueError
                                ELSE join([lines EXCEPT ![line + 1] = @ \o <<SP>> \o c]),
                             line_comment(parser, text, tag, FALSE)),
                from_end(line0, Len(lines))),
        splitlines(source))

\* ------------------------------------------------------------ environment
CodeA == <<"x", NL, "y">>
CodeB == <<"x", NL, "z">>

Dict(ov, rv, iss, imp, out) ==
    [none |-> FALSE,
     keys |-> {"overview", "review", "issues", "impediments", "output"},
     error |-> << >>, overview |-> ov, review |-> rv, design |-> << >>,
     notes |-> << >>, issues |-> iss, imperfections |-> << >>,
     impediments |-> imp, output |-> out]

Overviews == {<<"summary">>}
Findings == {<< << >>, << >> >>,
             << << <<"bug">> >>, << >> >>,
             << << >>, << <<"blocked">> >> >>,
             << << <<"bug">> >>, << <<"blocked">> >> >>}

\* code with an inline comment added by the AI
Annotated(parser, code) ==
    IF line_comment_prefix(parser) # << >>
    THEN line_comment_prefix(parser) \o <<SP, "hint", NL>> \o code
    ELSE block_comment_prefix(parser) \o <<SP, "hint", SP>>
         \o block_comment_suffix(parser) \o <<NL>> \o code

\* the narratives of the AI: <<review, <<issues, impediments>> >>
Narratives ==
    {<< << >>, << << >>, << >> >> >>}
    \cup {<< <<"sound">>, f >> : f \in Findings}

\* what the AI may answer to a review request for `input`: the input
\* unchanged under any narrative, the code annotated, or the code rewritten
ReviewOutputs(parser, input) ==
    {<<CodeB, << <<"sound">>, << << >>, << >> >> >> >>,
     <<CodeB, << << >>, << << <<"bug">> >>, << >> >> >> >>,
     <<Annotated(parser, CodeA), << <<"sound">>, << << >>, << >> >> >> >>}
    \cup (IF Len(input) <= MaxTextLen
          THEN {<<input, t>> : t \in Narratives} ELSE {})

ReviewDicts(parser, input) ==
    {Dict(ov, o[2][1], o[2][2][1], o[2][2][2], o[1]) :
        ov \in Overviews, o \in ReviewOutputs(parser, input)}
    \cup {[Dict(<<"summary">>, <<"sound">>, << >>, << >>, CodeA) EXCEPT !.keys = @ \ {"review"}]}
    \cup (IF Len(input) <= MaxTextLen
          THEN {Dict(Int42, <<"sound">>, << >>, << >>, input)} ELSE {})

ReviewReplies(parser, input) ==
    {[data |-> NoneData, err |-> ERR_CLI]}
    \cup {[data |-> d, err |-> NoErr] : d \in ReviewDicts(parser, input)}

\* what the AI may answer to a fix request
FixDicts ==
    {Dict(<< >>, << >>, << >>, << >>, CodeB),
     Dict(<<"patched">>, <<"why">>, << >>, << >>, CodeB),
     [Dict(<<"patched">>, << >>, << >>, << >>, << >>) EXCEPT !.keys = @ \ {"output"}]}

FixReplies ==
    {[data |-> NoneData, err |-> ERR_CLI]}
    \cup {[data |-> d, err |-> NoErr] : d \in FixDicts}

\* artifacts a session can start from: plain code, code with a requirement
\* comment written by the user, and artifacts persisted by an earlier session
Requirement(parser) ==
    IF line_comment_prefix(parser) # << >>
    THEN line_comment_prefix(parser) \o REQ_TAG \o <<SP, "must", NL>>
    ELSE block_comment_prefix(parser) \o REQ_TAG \o <<SP, "must", SP>>
         \o block_comment_suffix(parser) \o <<NL>>

Persisted(parser, f, requirements) ==
    update_source(English, parser,
                  Dict(<<"summary">>, <<"sound">>, f[1], f[2], CodeA), requirements)

\* an artifact that read_text cannot read (missing, or not UTF-8)
Unreadable == <<"<unreadable>">>

InitialFiles(parser) ==
    {CodeA \o <<NL>>,
     Requirement(parser) \o CodeA \o <<NL>>,
     << >>,
     Requirement(parser) \o <<NL>>,
     Unreadable}
    \cup {Persisted(parser, p[1], p[2]) :
            p \in {<<f, << >> >> : f \in Findings}
                  \cup {<< << << <<"bug">> >>, << >> >>, <<"must">> >>}}

Langs == {<< >>}
Contexts == {<<"note">>}
SessionParsers == {"python", "html"}

\* ------------------------------------------------------------------ state
VARIABLES
    mode,           \* "review": TheReviewFile.review, "fix": TheReviewFix.review
    parser,         \* the parser created from the file name
    lang,           \* the caller's comment-language override
    tmp,            \* TRUE when a directory for the diagnostic log is given
    file,           \* the artifact on disk
    log,            \* the diagnostic log on disk
    pc,             \* position of the session
    retry,          \* the retry argument of the running review()
    context,        \* the context argument of the running review()
    request,        \* the request built by _load
    site,           \* the caller of the running _review
    n,              \* the retry argument of the running _review
    logic,          \* the expected fingerprint
    runtime_lang,   \* the comment language of the running _review
    i,              \* the loop index of _review
    data,           \* the data returned by the last exec
    err,            \* the error returned by the last exec
    rv,             \* the value returned by _review
    result,         \* the value returned by review()
    budget,         \* history: the retry argument of the first review()
    reviewCalls,    \* history: review calls of the AI made by the running _review
    fixCalls,       \* history: fix calls of the AI made by the session
    writes,         \* history: writes of the artifact by the running _review
    wrote,          \* history: the session has written the artifact
    attempts,       \* history: the exec results of the running _review
    logStart,       \* history: length of the log when the running _review began
    started,        \* history: <<file, log, context, retry>> at the last entry of review()
    passes,         \* history: _review invocations of the session (saturating)
    op,             \* a direct call: the operation last applied ("none" in a session)
    args,           \* a direct call: the arguments of the operation
    out,            \* a direct call: the value returned (by insert_comment, comment,
                    \* parse, _th ...), or the error raised
    got,            \* a direct call: the value returned by the second operation
                    \* (extract_comments, parse of the edited tree)
    tasks           \* review_list: the review_code call of each list entry

vars == <<mode, parser, lang, tmp, file, log, pc, retry, context, request, site,
          n, logic, runtime_lang, i, data, err, rv, result, budget, reviewCalls,
          fixCalls, writes, wrote, attempts, logStart, started,
          passes, op, args, out, got, tasks>>

\* a direct call of the CommentTagger: no step of a session touches it
call == <<op, args, out, got>>
params == <<mode, parser, lang, tmp, budget, call, tasks>>
locals == <<logic, runtime_lang, i, n, site>>
history == <<reviewCalls, fixCalls, writes, wrote, attempts, logStart, started,
             passes>>

Init ==
    /\ mode \in {"review", "fix"}
    /\ parser \in SessionParsers
    /\ lang \in Langs
    /\ tmp \in BOOLEAN
    /\ file \in InitialFiles(parser)
    /\ log = << >>
    /\ pc = "start"
    /\ retry \in 1..MaxRetry
    /\ budget = retry
    /\ context \in Contexts
    /\ request = load(parser, << >>, << >>)
    /\ site = "top"
    /\ n = 0
    /\ logic = None
    /\ runtime_lang = << >>
    /\ i = 0
    /\ data = NoneData
    /\ err = NoErr
    /\ rv = None
    /\ result = None
    /\ reviewCalls = 0
    /\ fixCalls = 0
    /\ writes = 0
    /\ wrote = FALSE
    /\ attempts = << >>
    /\ logStart = 0
    /\ started = << >>
    /\ passes = 0
    /\ tasks = << >>
    /\ op = "none"
    /\ args = << >>
    /\ out = None
    /\ got = None

\* ---------------------------------------------------------- TheReviewFile
\* `for i in range(retry)`: another attempt is due
in_range_off_by_one(k, r) == k < r + 1
in_range(k, r) == k < r

\* `if data and not err`
accepted_ignoring_err(d, e) == ~d.none
accepted(d, e) == ~d.none /\ e = NoErr

\* `if data:` after the last failed attempt
falls_back_always(d) == TRUE
falls_back(d) == ~d.none

\* `data['output'] = source`
fallback_data_keeps_output(d, source) == d
fallback_data(d, source) == [d EXCEPT !.output = source]

\* `except Exception as e: raise ValueError(...)`: the read of the artifact fails
read_fails(f) == f = Unreadable

\* review() going on with an empty input
Load_reviewing_empty ==
    /\ pc = "start"
    /\ IF read_fails(file)
       THEN /\ pc' = "raised"
            /\ UNCHANGED <<request, result, site, n>>
       ELSE \E r \in {load(parser, file, context)} :
            /\ request' = r
            /\ result' = result
            /\ pc' = IF mode = "review" THEN "review" ELSE "check"
            /\ site' = IF mode = "review" THEN "top" ELSE site
            /\ n' = IF mode = "review" THEN retry ELSE n
    /\ started' = <<file, log, context, retry>>
    /\ UNCHANGED <<params, file, log, retry, context, logic, runtime_lang, i,
                   data, err, rv, reviewCalls, fixCalls, writes, wrote,
                   attempts, logStart, passes>>

\* review(): create the parser, load (a failed read raises ValueError out of
\* review()), return '' for an empty input
Load ==
    /\ pc = "start"
    /\ IF read_fails(file)
       THEN /\ pc' = "raised"
            /\ UNCHANGED <<request, result, site, n>>
       ELSE \E r \in {load(parser, file, context)} :
            \E empty \in {r.input = << >>} :
            /\ request' = r
            /\ result' = IF empty THEN << >> ELSE result
            /\ pc' = IF empty THEN "done"
                     ELSE IF mode = "review" THEN "review" ELSE "check"
            /\ site' = IF ~empty /\ mode = "review" THEN "top" ELSE site
            /\ n' = IF ~empty /\ mode = "review" THEN retry ELSE n
    /\ started' = <<file, log, context, retry>>
    /\ UNCHANGED <<params, file, log, retry, context, logic, runtime_lang, i,
                   data, err, rv, reviewCalls, fixCalls, writes, wrote,
                   attempts, logStart, passes>>

\* _review up to the retry loop: expected fingerprint, language, prompts
ReviewInit ==
    /\ pc = "review"
    /\ logic' = parse(parser, request.input)
    /\ LET override_lang == strip(lang, Whitespace)
           l == IF override_lang # << >> THEN override_lang
                ELSE request.comment_language
       IN /\ runtime_lang' = l
          /\ request' = IF l # << >>
                        THEN [request EXCEPT !.comment_language = l]
                        ELSE request
    /\ i' = 0
    /\ reviewCalls' = 0
    /\ writes' = 0
    /\ attempts' = << >>
    /\ logStart' = Len(log)
    /\ passes' = Min(passes + 1, MaxPasses)
    /\ pc' = "loop"
    /\ UNCHANGED <<params, file, log, retry, context, site, n, data, err, rv,
                   result, fixCalls, wrote, started>>

\* bound of the model: the log and the artifact stay of bounded size
LogRoom == ~tmp \/ Len(log) < MaxLog

\* one reviewer.exec of the retry loop
ReviewExec ==
    /\ pc = "loop"
    /\ in_range(i, n)
    /\ \E cli \in ReviewReplies(parser, request.input) :
        \E r \in {exec(cli, TRUE, parser, logic)} :
        /\ (r.data.none \/ r.err # NoErr) => LogRoom
        /\ (~r.data.none /\ r.err # NoErr) => Len(request.input) <= MaxTextLen
        /\ data' = r.data
        /\ err' = r.err
        /\ attempts' = Append(attempts, r)
    /\ reviewCalls' = reviewCalls + 1
    /\ pc' = "handle"
    /\ UNCHANGED <<params, file, log, retry, context, request, locals, rv,
                   result, fixCalls, writes, wrote, logStart, started, passes>>

\* _error writing the output block for every failed attempt
error_record_with_output(k, d, e) == [n |-> k, err |-> e, output |-> d.output]

\* the record appended by _error
error_record(k, d, e) ==
    [n |-> k, err |-> e, output |-> IF ~d.none /\ "output" \in d.keys THEN d.output ELSE None]

error_log(k, d, e) == IF tmp THEN Append(log, error_record(k, d, e)) ELSE log

\* _update: the write and the value returned; a ValueError of the comment
\* rendering leaves the artifact as it is
Update(d) ==
    \E source \in {update_source(runtime_lang, parser, d, request.requirements)} :
    \E raised \in {source = ValueError} :
    /\ file' = IF raised THEN file ELSE source
    /\ rv' = IF raised THEN rv ELSE update_txt(runtime_lang, d)
    /\ writes' = IF raised THEN writes ELSE writes + 1
    /\ wrote' = IF raised THEN wrote ELSE TRUE
    /\ pc' = IF raised THEN "raised" ELSE "ret"

\* Accept without the return: the loop goes on after the write
Accept_without_return ==
    /\ pc = "handle"
    /\ accepted(data, err)
    /\ file' = update_source(runtime_lang, parser, data, request.requirements)
    /\ rv' = update_txt(runtime_lang, data)
    /\ writes' = writes + 1
    /\ wrote' = TRUE
    /\ pc' = "loop"
    /\ i' = i + 1
    /\ UNCHANGED <<params, log, retry, context, request, site, n, logic,
                   runtime_lang, data, err, result, reviewCalls, fixCalls,
                   attempts, logStart, started, passes>>

\* data and not err: persist the annotations
Accept ==
    /\ pc = "handle"
    /\ accepted(data, err)
    /\ Update(data)
    /\ UNCHANGED <<params, log, retry, context, request, locals, data, err,
                   result, reviewCalls, fixCalls, attempts, logStart, started,
                   passes>>

\* a failed attempt that is not the last one
Retry ==
    /\ pc = "handle"
    /\ ~accepted(data, err)
    /\ i < n - 1
    /\ log' = error_log(i + 1, data, err)
    /\ i' = i + 1
    /\ pc' = "loop"
    /\ UNCHANGED <<params, file, retry, context, request, site, n, logic,
                   runtime_lang, data, err, rv, result, history>>

\* the last attempt failed on the fingerprint: keep the metadata only
Fallback ==
    /\ pc = "handle"
    /\ ~accepted(data, err)
    /\ ~(i < n - 1)
    /\ falls_back(data)
    /\ log' = error_log(i + 1, data, err)
    /\ \E d \in {fallback_data(data, request.input)} :
       /\ data' = d
       /\ Update(d)
    /\ UNCHANGED <<params, retry, context, request, locals, err, result,
                   reviewCalls, fixCalls, attempts, logStart, started, passes>>

\* Exhausted falling back on the data of an earlier attempt
Exhausted_falling_back ==
    /\ pc = "handle"
    /\ ~accepted(data, err)
    /\ ~(i < n - 1)
    /\ ~falls_back(data)
    /\ log' = error_log(i + 1, data, err)
    /\ IF \E k \in 1..Len(attempts) : ~attempts[k].data.none
       THEN /\ \E k \in {CHOOSE k \in 1..Len(attempts) : ~attempts[k].data.none} :
               \E d \in {fallback_data(attempts[k].data, request.input)} :
               /\ data' = d
               /\ Update(d)
            /\ UNCHANGED <<params, retry, context, request, locals, err, result,
                           reviewCalls, fixCalls, attempts, logStart, started,
                           passes>>
       ELSE /\ i' = i + 1
            /\ pc' = "loop"
            /\ UNCHANGED <<params, file, retry, context, request, site, n, logic,
                           runtime_lang, data, err, rv, result, history>>

\* the last attempt failed without data
Exhausted ==
    /\ pc = "handle"
    /\ ~accepted(data, err)
    /\ ~(i < n - 1)
    /\ ~falls_back(data)
    /\ log' = error_log(i + 1, data, err)
    /\ i' = i + 1
    /\ pc' = "loop"
    /\ UNCHANGED <<params, file, retry, context, request, site, n, logic,
                   runtime_lang, data, err, rv, result, history>>

\* the loop is over: return None
LoopExit ==
    /\ pc = "loop"
    /\ ~in_range(i, n)
    /\ rv' = None
    /\ pc' = "ret"
    /\ UNCHANGED <<params, file, log, retry, context, request, locals, data,
                   err, result, history>>

\* review() returns what _review returned
ReviewReturn ==
    /\ pc = "ret"
    /\ site = "top"
    /\ result' = rv
    /\ pc' = "done"
    /\ UNCHANGED <<params, file, log, retry, context, request, locals, data,
                   err, rv, history>>

\* ----------------------------------------------------------- TheReviewFix
\* `retry <= 1 or not self._to_fix(prior_review)`: stop here
stop_here_needs_both(r, review) == r <= 1 /\ ~to_fix(review)
stop_here(r, review) == r <= 1 \/ ~to_fix(review)

\* `request['context'] += '\n' + summary`
extend_context_replaces(ctx, summary) == <<NL>> \o summary
extend_context(ctx, summary) == ctx \o <<NL>> \o summary

\* `retry - 1`: the budget handed to the next review()
next_retry_unchanged(r) == r
next_retry(r) == r - 1

\* never reviewed before: review it first
ReviewFirst ==
    /\ pc = "check"
    /\ ~contains(request.prior_review, Title("Review"))
    /\ site' = "first"
    /\ n' = 1
    /\ pc' = "review"
    /\ UNCHANGED <<params, file, log, retry, context, request, logic,
                   runtime_lang, i, data, err, rv, result, history>>

\* the initial review failed: return None
FirstFailed ==
    /\ pc = "ret"
    /\ site = "first"
    /\ rv \in {None, << >>}
    /\ result' = None
    /\ pc' = "done"
    /\ UNCHANGED <<params, file, log, retry, context, request, locals, data,
                   err, rv, history>>

\* resubmit after the initial review, with the context of the request
FirstRestart ==
    /\ pc = "ret"
    /\ site = "first"
    /\ rv \notin {None, << >>}
    /\ context' = request.context
    /\ pc' = "start"
    /\ UNCHANGED <<params, file, log, retry, request, locals, data, err, rv,
                   result, history>>

\* nothing to fix, or impediments: return the prior review
Stop ==
    /\ pc = "check"
    /\ contains(request.prior_review, Title("Review"))
    /\ ~to_fix(request.prior_review)
    /\ result' = request.prior_review
    /\ pc' = "done"
    /\ UNCHANGED <<params, file, log, retry, context, request, locals, data,
                   err, rv, history>>

\* initialise the fixer prompts (reviewer.init stores a given language)
FixInit ==
    /\ pc = "check"
    /\ contains(request.prior_review, Title("Review"))
    /\ to_fix(request.prior_review)
    /\ request' = IF lang # << >>
                  THEN [request EXCEPT !.comment_language = lang]
                  ELSE request
    /\ pc' = "fix"
    /\ UNCHANGED <<params, file, log, retry, context, locals, data, err, rv,
                   result, history>>

\* invoke the code fixer
FixExec ==
    /\ pc = "fix"
    /\ \E cli \in FixReplies :
        \E r \in {exec(cli, FALSE, parser, None)} :
        /\ (~r.data.none /\ r.err = NoErr /\ get(r.data, "output") # None
            /\ fix_summary(r.data) # << >>) => LogRoom
        /\ data' = r.data
        /\ err' = r.err
    /\ fixCalls' = fixCalls + 1
    /\ pc' = "fixed"
    /\ UNCHANGED <<params, file, log, retry, context, request, locals, rv,
                   result, reviewCalls, writes, wrote, attempts, logStart,
                   started, passes>>

\* `if not data or err` and `if output is None`
fix_failed_ignoring_output == data.none \/ err # NoErr
fix_failed == data.none \/ err # NoErr \/ get(data, "output") = None

\* the fixer failed or gave no output, and no retry is left
FixGiveUp ==
    /\ pc = "fixed"
    /\ fix_failed
    /\ retry <= 1
    /\ result' = None
    /\ pc' = "done"
    /\ UNCHANGED <<params, file, log, retry, context, request, locals, data,
                   err, rv, history>>

\* the fixer failed or gave no output: retry with the context of the request
FixRetry ==
    /\ pc = "fixed"
    /\ fix_failed
    /\ ~(retry <= 1)
    /\ context' = request.context
    /\ retry' = next_retry(retry)
    /\ pc' = "start"
    /\ UNCHANGED <<params, file, log, request, locals, data, err, rv, result,
                   history>>

\* FixDone reviewing the code that was loaded instead of the fixed code
FixDone_keeping_input ==
    /\ pc = "fixed"
    /\ ~fix_failed
    /\ log' = IF tmp /\ fix_summary(data) # << >>
              THEN Append(log, [n |-> 0, err |-> "summary", output |-> fix_summary(data)])
              ELSE log
    /\ request' = [request EXCEPT !.context = extend_context(@, fix_summary(data))]
    /\ site' = "rereview"
    /\ n' = 1
    /\ pc' = "review"
    /\ UNCHANGED <<params, file, retry, context, logic, runtime_lang, i, data,
                   err, rv, result, history>>

\* the fixer gave an output: log the summary, extend the context, review
\* the fixed code
FixDone ==
    /\ pc = "fixed"
    /\ ~fix_failed
    /\ log' = IF tmp /\ fix_summary(data) # << >>
              THEN Append(log, [n |-> 0, err |-> "summary", output |-> fix_summary(data)])
              ELSE log
    /\ request' = [request EXCEPT !.context = extend_context(@, fix_summary(data)),
                                  !.input = data.output]
    /\ site' = "rereview"
    /\ n' = 1
    /\ pc' = "review"
    /\ UNCHANGED <<params, file, retry, context, logic, runtime_lang, i, data,
                   err, rv, result, history>>

\* ReReviewFailed spending the remaining budget on another fix
ReReviewFailed_retrying ==
    /\ pc = "ret"
    /\ site = "rereview"
    /\ rv \in {None, << >>}
    /\ IF retry <= 1
       THEN /\ result' = None
            /\ pc' = "done"
            /\ UNCHANGED <<retry, context>>
       ELSE /\ context' = request.context
            /\ retry' = next_retry(retry)
            /\ pc' = "start"
            /\ UNCHANGED result
    /\ UNCHANGED <<params, file, log, request, locals, data, err, rv, history>>

\* the review of the fixed code failed: return None
ReReviewFailed ==
    /\ pc = "ret"
    /\ site = "rereview"
    /\ rv \in {None, << >>}
    /\ result' = None
    /\ pc' = "done"
    /\ UNCHANGED <<params, file, log, retry, context, request, locals, data,
                   err, rv, history>>

\* stop here: no retry left, or nothing to fix in the new review
ReReviewStop ==
    /\ pc = "ret"
    /\ site = "rereview"
    /\ rv \notin {None, << >>}
    /\ stop_here(retry, rv)
    /\ result' = rv
    /\ pc' = "done"
    /\ UNCHANGED <<params, file, log, retry, context, request, locals, data,
                   err, rv, history>>

\* retry with the expanded context from this pass
ReReviewRestart ==
    /\ pc = "ret"
    /\ site = "rereview"
    /\ rv \notin {None, << >>}
    /\ ~stop_here(retry, rv)
    /\ context' = request.context
    /\ retry' = next_retry(retry)
    /\ pc' = "start"
    /\ UNCHANGED <<params, file, log, request, locals, data, err, rv, result,
                   history>>

Next ==
    \/ Load
    \/ ReviewInit
    \/ ReviewExec
    \/ Accept
    \/ Retry
    \/ Fallback
    \/ Exhausted
    \/ LoopExit
    \/ ReviewReturn
    \/ ReviewFirst
    \/ FirstFailed
    \/ FirstRestart
    \/ Stop
    \/ FixInit
    \/ FixExec
    \/ FixGiveUp
    \/ FixRetry
    \/ FixDone
    \/ ReReviewFailed
    \/ ReReviewStop
    \/ ReReviewRestart

Spec == Init /\ [][Next]_vars

TypeOK == pc \in {"start", "review", "loop", "handle", "ret", "check", "fix", "fixed", "done", "raised"}

\* ----------------------------------------------------------------- claims
Matched(k) == ~attempts[k].data.none /\ attempts[k].err = NoErr
Mismatched(k) == ~attempts[k].data.none /\ attempts[k].err # NoErr
HardError(k) == attempts[k].data.none

\* the running _review has made its n attempts (n >= 1)
AllAttemptsMade == n >= 1 /\ Len(attempts) = n

C2_MismatchFallback ==
    (pc = "ret" /\ AllAttemptsMade /\ \A k \in 1..n : Mismatched(k)) =>
        /\ writes = 1
        /\ data.output = request.input
        /\ file = update_source(runtime_lang, parser,
                                [attempts[n].data EXCEPT !.output = request.input],
                                request.requirements)
        /\ rv = update_txt(runtime_lang, attempts[n].data)
        /\ tmp => /\ Len(log) = logStart + n
                  /\ \A k \in 1..n :
                        log[logStart + k] = [n |-> k, err |-> WARN_MISMATCH,
                                             output |-> attempts[k].data.output]

\* C2 witness: two mismatching attempts with different narratives, logged
C2_Witness ==
    /\ pc = "ret" /\ n = 2 /\ Len(attempts) = 2 /\ tmp
    /\ Mismatched(1) /\ Mismatched(2)
    /\ update_txt(runtime_lang, attempts[1].data) # update_txt(runtime_lang, attempts[2].data)
    /\ attempts[2].data.output # request.input

\* C3: if every attempt within the budget ends in a hard error, _review
\* returns None without writing the artifact, and a ReviewSession returns
\* None with the artifact never written.
C3_HardErrorExhaustion ==
    /\ (pc = "ret" /\ Len(attempts) = n /\ \A k \in 1..n : HardError(k)) =>
            (rv = None /\ writes = 0)
    /\ (pc = "done" /\ mode = "review" /\ passes = 1 /\ Len(attempts) = n
        /\ \A k \in 1..n : HardError(k)) =>
            (result = None /\ ~wrote)

\* C3 witness: a ReviewSession whose two attempts both ended in a hard error
C3_Witness ==
    /\ pc = "done" /\ mode = "review" /\ n = 2 /\ Len(attempts) = 2
    /\ HardError(1) /\ HardError(2)
    /\ attempts[1].err # attempts[2].err

\* C4: an attempt whose output matches is the last AI call of _review: its
\* output is persisted and _review returns; when the first attempt matches
\* there is one AI call, no record is added to the log and there is no retry.
C4_AcceptEnds ==
    pc \in {"loop", "handle", "ret"} =>
        \A k \in 1..Len(attempts) : Matched(k) =>
            /\ k = Len(attempts)
            /\ reviewCalls = k
            /\ pc # "loop"
            /\ i = k - 1
            /\ Len(log) = logStart + (IF tmp THEN k - 1 ELSE 0)
            /\ pc = "ret" =>
                  /\ writes = 1
                  /\ rv = update_txt(runtime_lang, attempts[k].data)
                  /\ file = update_source(runtime_lang, parser, attempts[k].data,
                                          request.requirements)

\* C4 witness: the first of two allowed attempts matched, with a log configured
C4_Witness ==
    /\ pc = "ret" /\ n = 2 /\ tmp
    /\ Len(attempts) = 1 /\ Matched(1)

\* the steps _review still has to take, at most
Rank ==
    CASE pc = "review" -> 3 * n + 2
      [] pc = "loop" -> 3 * (n - i) + 1
      [] pc = "handle" -> 3 * (n - i)
      [] OTHER -> 0

\* C5: a _review with budget n makes at most n AI calls, writes the
\* artifact at most once and makes no AI call after the write; each of its
\* steps lowers a non-negative measure, so it returns after finitely many
\* steps when every AI call returns.
C5_BoundedReview ==
    /\ [](/\ reviewCalls <= n
          /\ writes <= 1
          /\ writes = 1 => pc \notin {"loop", "handle"})
    /\ [][(pc \in {"review", "loop", "handle"}) => (Rank' < Rank /\ Rank' >= 0)]_vars

\* C5 witness: the whole budget of two calls was used before the write
C5_Witness ==
    /\ pc = "ret" /\ n = 2 /\ reviewCalls = 2 /\ writes = 1

HasReview(review) == contains(review, Title("Review"))
HasIssues(review) == contains(review, Title("Issues"))
HasImpediments(review) == contains(review, Title("Impediments"))

\* C6: when the latest review (the prior review detected by the load) has no
\* Issues section or has an Impediments section, TheReviewFix.review stops:
\* it makes no fix call, returns that review text unchanged and does not
\* write the artifact; a fix call is made only with Issues present and
\* Impediments absent.
C6_FixStopCondition ==
    /\ [][(/\ pc = "check"
           /\ HasReview(request.prior_review)
           /\ ~HasIssues(request.prior_review) \/ HasImpediments(request.prior_review))
          => (/\ pc' = "done"
              /\ result' = request.prior_review
              /\ file' = file
              /\ log' = log
              /\ fixCalls' = fixCalls)]_vars
    /\ [][(fixCalls' # fixCalls)
          => (/\ HasIssues(request.prior_review)
              /\ ~HasImpediments(request.prior_review))]_vars
    /\ [][pc # "done"]_vars

\* C6 witness: a review with both Issues and Impediments was returned
\* unchanged, with no fix call and no write
C6_Witness ==
    /\ pc = "done" /\ mode = "fix"
    /\ result = request.prior_review
    /\ HasIssues(result) /\ HasImpediments(result)
    /\ fixCalls = 0 /\ ~wrote /\ retry = 2

\* C7: when the prior review reports issues, the first fix call succeeds
\* with output and the review that follows reports no issues, the session
\* ends there with one fix call and one review pass and returns that review,
\* whatever budget remains.
C7_OneCycleStop ==
    [][(/\ pc = "ret" /\ site = "rereview"
        /\ fixCalls = 1 /\ passes = 1
        /\ rv \notin {None, << >>}
        /\ ~HasIssues(rv))
       => (/\ pc' = "done"
           /\ result' = rv
           /\ fixCalls' = 1
           /\ passes' = 1
           /\ reviewCalls' = 1)]_vars

\* C7 witness: the session ended after one cycle with budget left
C7_Witness ==
    /\ pc = "done" /\ site = "rereview"
    /\ fixCalls = 1 /\ passes = 1 /\ reviewCalls = 1
    /\ retry = 2
    /\ result = rv /\ ~HasIssues(rv) /\ rv \notin {None, << >>}

\* the context carried by the session: the argument of review() until the
\* load has built the request, the context of the request afterwards
Ctx ==
    IF pc = "start" \/ (pc = "raised" /\ read_fails(file))
    THEN context ELSE request.context

\* C8: the context of a later step has the context of every earlier step as
\* a prefix; a successful fix extends it with a newline and the fix summary.
C8_ContextMonotone ==
    [][/\ startswith(Ctx', Ctx)
       /\ (pc = "fixed" /\ pc' = "review")
            => Ctx' = Ctx \o <<NL>> \o fix_summary(data)]_vars

\* C8 witness: two successful fixes have extended a non-empty context
C8_Witness ==
    /\ fixCalls = 2 /\ pc = "review" /\ site = "rereview"
    /\ Len(Ctx) > Len(context) /\ context # << >>
    /\ Len(context) > 1

\* C9: with a budget N >= 1 the fix call is made at most N times; each fix
\* call is made with a remaining budget lowered by one per earlier fix call,
\* so review passes consume none of it.
C9_FixBudget ==
    budget >= 1 =>
        /\ fixCalls <= budget
        /\ retry >= 1
        /\ pc = "fix" => retry = budget - fixCalls
        /\ pc = "fixed" => retry = budget - fixCalls + 1

\* C9 witness: the second fix call is due, after review passes
C9_Witness ==
    /\ pc = "fix" /\ budget = 2 /\ fixCalls = 1 /\ passes >= 2

\* C10: a FixSession returns after finitely many AI calls: review() is never
\* entered again with the artifact, the log, the context and the budget it was
\* entered with before (a session that comes back to the same state repeats
\* the same steps for ever when the AI repeats its answers).
C10_FixTerminates ==
    pc = "start" => started # <<file, log, context, retry>>

\* C11: a fix attempt that failed to execute or returned no output is
\* followed by one step that leaves the artifact, the log and the carried
\* context as they are; with budget left it restarts review() with retry
\* lowered by one, otherwise it ends the session with None.
C11_FixFailure ==
    [][(/\ pc = "fixed"
        /\ data.none \/ err # NoErr \/ "output" \notin data.keys)
       => (/\ file' = file
           /\ log' = log
           /\ wrote' = wrote
           /\ Ctx' = Ctx
           /\ IF retry > 1
              THEN pc' = "start" /\ retry' = retry - 1
              ELSE pc' = "done" /\ result' = None /\ retry' = retry)]_vars

\* C11 witness: a fix call returned data without output and the session
\* restarted with the budget lowered from 2 to 1
C11_Witness ==
    /\ pc = "start" /\ mode = "fix" /\ budget = 2 /\ retry = 1
    /\ fixCalls = 1 /\ ~data.none /\ "output" \notin data.keys
    /\ context # << >>

\* C12: no exception escapes review(): the session never reaches the
\* position where a ValueError has left review().
C12_ErrorsAreValues == pc # "raised"

\* C13: a response whose required field overview or review is not a str is
\* a failed attempt: whenever _review has written the artifact, the response
\* it wrote from carries a str overview and a str review.
C13_ValidationNeverPersisted ==
    (pc = "ret" /\ writes > 0) =>
        /\ isstr(get(data, "overview"))
        /\ isstr(get(data, "review"))

\* ------------------------------------------------- CommentTagger, called
\* The largest line index a caller passes, in absolute value.
MaxLine == 3

Tags == {REVIEW_TAG, REQ_TAG}

\* sources: empty, plain, with Windows and trailing line endings, with a
\* blank last line, and holding a tagged comment in the line form and in the
\* single-line block form (indented)
Sources(p) ==
    {<< >>,
     <<"a", NL, "b">>,
     <<"a", CRLF, "b", NL>>,
     <<"a", NL, NL>>,
     <<SP>> \o block_comment_prefix(p) \o REVIEW_TAG \o <<SP, "old", SP>>
         \o block_comment_suffix(p) \o <<NL, "a">>}
    \cup (IF line_comment_prefix(p) # << >>
          THEN {line_comment_prefix(p) \o REVIEW_TAG \o <<SP, "old", NL, "a">>}
          ELSE {})

\* comment texts: one line, padded, several lines, with a blank line, with a
\* final newline, empty, and holding the block suffixes
Texts ==
    {<<"x">>,
     <<SP, "x", SP>>,
     <<"x", NL, "y">>,
     <<"x", NL, NL, "y">>,
     <<"x", NL>>,
     << >>,
     <<"x", "*/", "-->", "QQQ">>}

PInit ==
    /\ mode = "review"
    /\ parser \in Parsers
    /\ lang = << >>
    /\ tmp = FALSE
    /\ file = << >>
    /\ log = << >>
    /\ pc = "call"
    /\ retry = 1
    /\ budget = 1
    /\ context = << >>
    /\ request = load(parser, << >>, << >>)
    /\ site = "top"
    /\ n = 0
    /\ logic = None
    /\ runtime_lang = << >>
    /\ i = 0
    /\ data = NoneData
    /\ err = NoErr
    /\ rv = None
    /\ result = None
    /\ reviewCalls = 0
    /\ fixCalls = 0
    /\ writes = 0
    /\ wrote = FALSE
    /\ attempts = << >>
    /\ logStart = 0
    /\ started = << >>
    /\ passes = 0
    /\ tasks = << >>
    /\ op = "none"
    /\ \E s \in Sources(parser), t \in Tags, c \in Texts :
          args = [source |-> s, tag |-> t, text |-> c,
                  line |-> 0, block |-> FALSE, first |-> 0, last |-> -1]
    /\ out = None
    /\ got = None

session == <<mode, parser, lang, tmp, file, log, pc, retry, context, request, site,
             n, logic, runtime_lang, i, data, err, rv, result, budget, reviewCalls,
             fixCalls, writes, wrote, attempts, logStart, started, passes, tasks>>

raised(r) == r \in {ValueError, LineOutOfRange}

\* insert_comment(source, line, text, tag, block)
DoInsert ==
    /\ op = "none"
    /\ \E line \in -MaxLine..MaxLine, block \in BOOLEAN :
          /\ args' = [args EXCEPT !.line = line, !.block = block]
          /\ out' = insert_comment(parser, args.source, line, args.text, args.tag, block)
    /\ op' = "insert"
    /\ UNCHANGED <<session, got>>

\* comment(source, line, text, tag)
DoComment ==
    /\ op = "none"
    /\ \E line \in -MaxLine..MaxLine :
          /\ args' = [args EXCEPT !.line = line]
          /\ out' = comment(parser, args.source, line, args.text, args.tag)
    /\ op' = "comment"
    /\ UNCHANGED <<session, got>>

\* extract_comments(source, tag, first, last), `assert first >= 0`
DoExtract ==
    /\ op = "none"
    /\ \E first \in 0..MaxLine, last \in -MaxLine..MaxLine :
          /\ args' = [args EXCEPT !.first = first, !.last = last]
          /\ got' = extract_comments(parser, args.source, args.tag, first, last)
    /\ op' = "extract"
    /\ UNCHANGED <<session, out>>

\* extract_comments(insert_comment(...), tag)
ExtractInserted ==
    /\ op = "insert"
    /\ ~raised(out)
    /\ got' = extract_comments(parser, out, args.tag, 0, -1)
    /\ op' = "insert_extract"
    /\ UNCHANGED <<session, args, out>>

\* extract_comments(comment(...), tag)
ExtractCommented ==
    /\ op = "comment"
    /\ ~raised(out)
    /\ got' = extract_comments(parser, out, args.tag, 0, -1)
    /\ op' = "comment_extract"
    /\ UNCHANGED <<session, args, out>>

PNext ==
    \/ DoInsert
    \/ DoComment
    \/ DoExtract
    \/ ExtractInserted
    \/ ExtractCommented

ParserSpec == PInit /\ [][PNext]_vars

\* ---------------------------------------------------- CommentTagger claims
\* the source with its line endings normalized: lines joined by "\n"
normalized(s) == join(splitlines(s))

\* the lines of the trimmed text, each trimmed
trimmed(text) ==
    Val(LAMBDA ls : [k \in 1..Len(ls) |-> strip(ls[k], Whitespace)],
        split(strip(text, Whitespace), NL))

\* C14: insert/extract round trip.  For every source, tag, comment text and
\* language, extract_comments(insert_comment(source, 0, text, tag), tag)
\* returns the trimmed text as the comments and the original source, line
\* endings normalized, as the residual source.
C14_RoundTrip ==
    (op = "insert_extract" /\ args.line = 0 /\ ~args.block) =>
        /\ got.comments = trimmed(args.text)
        /\ got.source = normalized(args.source)

\* `if last < 0: last += n elif last >= n: last = n - 1`: the last line scanned
resolved_last(source, last) ==
    Val(LAMBDA count : IF last < 0 THEN last + count ELSE Min(last, count - 1),
        Len(splitlines(source)))

\* C15: empty range.  For every source, tag and first >= 0, when the resolved
\* last line is below first, extract_comments returns no comment and the
\* source exactly as given, line endings included.
C15_EmptyRange ==
    (op = "extract" /\ resolved_last(args.source, args.last) < args.first) =>
        /\ got.comments = << >>
        /\ got.source = args.source

\* a source with a Windows and a final line ending, first beyond the last
\* line and a negative last that stays negative
C15_Witness ==
    /\ op = "extract"
    /\ args.source = <<"a", CRLF, "b", NL>>
    /\ args.first = 3
    /\ args.last = -3
    /\ got.source = <<"a", CRLF, "b", NL>>

\* C16: normalized output.  For every source and every line range the
\* source returned by extract_comments has "\n" as its only line terminator
\* and no terminator at its end.
C16_NormalizedOutput ==
    op \in {"extract", "insert_extract", "comment_extract"} =>
        /\ \A k \in 1..Len(got.source) : got.source[k] # CRLF
        /\ got.source = << >> \/ Last(got.source) \notin {NL, CRLF}

\* C17: range check of comment().  A negative line has the line count added
\* (-1 is the last line); comment() raises the out-of-range error exactly
\* when the resolved index is outside [0, line count); when it returns, the
\* lines before and after the targeted line are those of the source, and the
\* targeted line has the comment appended.
C17_CommentRange ==
    op = "comment" =>
        \E lines \in {splitlines(args.source)} :
        \E k \in {IF args.line < 0 THEN args.line + Len(lines) ELSE args.line} :
            /\ (out = LineOutOfRange) <=> (k < 0 \/ k >= Len(lines))
            /\ ~raised(out) =>
                 \E res \in {split(out, NL)} :
                    /\ Len(res) >= Len(lines)
                    /\ SubSeq(res, 1, k) = SubSeq(lines, 1, k)
                    /\ SubSeq(res, Len(res) - Len(lines) + k + 2, Len(res))
                           = SubSeq(lines, k + 2, Len(lines))
                    /\ startswith(res[k + 1], lines[k + 1] \o <<SP>>)

\* line = -1 on a two-line source: the comment is appended to the last line
C17_Witness ==
    /\ op = "comment"
    /\ parser = "c"
    /\ args.line = -1
    /\ args.source = <<"a", NL, "b">>
    /\ args.text = <<"x">>
    /\ out = <<"a", NL, "b", SP, "//">> \o args.tag \o <<SP, "x">>

\* the text cannot be written as a comment: the block form is used and the
\* text holds the block suffix
unsupported(p, text, block) ==
    /\ block \/ line_comment_prefix(p) = << >>
    /\ contains(text, block_comment_suffix(p))

\* C18: clamping of insert_comment().  No line index makes insert_comment
\* fail (it fails for the text alone); a negative index counts from the end,
\* the resolved index is clamped into [0, line count], an index beyond the
\* line count appends after the last line, and the lines of the source are
\* all kept, in order, around the inserted comment.
C18_InsertClamping ==
    op = "insert" =>
        \E lines \in {splitlines(args.source)} :
        \E k \in {IF args.line < 0 THEN Max(0, args.line + Len(lines))
                  ELSE Min(args.line, Len(lines))} :
            /\ raised(out) <=> unsupported(parser, args.text, args.block)
            /\ ~raised(out) =>
                 \E res \in {split(out, NL)} :
                    /\ Len(res) > Len(lines)
                    /\ SubSeq(res, 1, k) = SubSeq(lines, 1, k)
                    /\ SubSeq(res, Len(res) - Len(lines) + k + 1, Len(res))
                           = SubSeq(lines, k + 1, Len(lines))

\* an index beyond the line count: the comment comes after the last line
C18_Witness ==
    /\ op = "insert"
    /\ parser = "python"
    /\ args.line = 3
    /\ ~args.block
    /\ args.source = <<"a", NL, "b">>
    /\ args.text = <<"x">>
    /\ out = <<"a", NL, "b", NL, "#">> \o args.tag \o <<SP, "x">>

\* the source, first and last of the extract_comments call of the state
scanned ==
    IF op = "extract"
    THEN [source |-> args.source, first |-> args.first, last |-> args.last]
    ELSE [source |-> out, first |-> 0, last |-> -1]

\* a full-line line comment that begins with the line prefix and the tag
line_form(p, l, tag) ==
    /\ line_comment_prefix(p) # << >>
    /\ startswith(strip(l, Whitespace), line_comment_prefix(p) \o tag)

\* a single-line block comment that begins with the block prefix and the tag
\* and ends with the block suffix
block_form(p, l, tag) ==
    /\ block_comment_prefix(p) # << >>
    /\ startswith(strip(l, Whitespace), block_comment_prefix(p) \o tag)
    /\ endswith(strip(l, Whitespace), block_comment_suffix(p))

\* C19 as stated: for every language, a line of the scanned range is matched
\* (taken out of the source and returned as a comment) exactly when it has
\* the line form or the single-line block form.
C19_EitherForm ==
    (/\ op \in {"extract", "insert_extract", "comment_extract"}
     /\ resolved_last(scanned.source, scanned.last) >= scanned.first) =>
        \E lines \in {splitlines(scanned.source)} :
        \E range \in {SubSeq(lines, scanned.first + 1,
                             resolved_last(scanned.source, scanned.last) + 1)} :
            /\ Len(got.comments)
                 = Len(SelectSeq(range, LAMBDA l : \/ line_form(parser, l, args.tag)
                                                   \/ block_form(parser, l, args.tag)))
            /\ got.source
                 = join(SubSeq(lines, 1, scanned.first)
                        \o SelectSeq(range, LAMBDA l : ~(\/ line_form(parser, l, args.tag)
                                                         \/ block_form(parser, l, args.tag)))
                        \o SubSeq(lines, Len(range) + scanned.first + 1, Len(lines)))

\* C19 amended: in a language with a line form a line of the scanned range
\* is matched exactly when it has the line form (a single-line block comment
\* is left in the source); in a language without a line form, exactly when
\* it has the single-line block form.
C19_MatchingRule ==
    (/\ op \in {"extract", "insert_extract", "comment_extract"}
     /\ resolved_last(scanned.source, scanned.last) >= scanned.first) =>
        \E lines \in {splitlines(scanned.source)} :
        \E range \in {SubSeq(lines, scanned.first + 1,
                             resolved_last(scanned.source, scanned.last) + 1)} :
            /\ Len(got.comments)
                 = Len(SelectSeq(range, LAMBDA l :
                          IF line_comment_prefix(parser) # << >>
                          THEN line_form(parser, l, args.tag)
                          ELSE block_form(parser, l, args.tag)))
            /\ got.source
                 = join(SubSeq(lines, 1, scanned.first)
                        \o SelectSeq(range, LAMBDA l :
                              ~ IF line_comment_prefix(parser) # << >>
                                THEN line_form(parser, l, args.tag)
                                ELSE block_form(parser, l, args.tag))
                        \o SubSeq(lines, Len(range) + scanned.first + 1, Len(lines)))

\* a single-line block comment with the tag, in C: left in the source
C19_Witness ==
    /\ op = "extract"
    /\ parser = "c"
    /\ args.tag = REVIEW_TAG
    /\ args.first = 0
    /\ args.last = -1
    /\ args.source = <<SP, "/*">> \o REVIEW_TAG \o <<SP, "old", SP, "*/", NL, "a">>
    /\ got.comments = << >>
    /\ got.source = args.source

\* C20: extraction asymmetry.  The line to which comment() appended an
\* inline trailing comment (any line of any source that is not a tagged
\* comment already, a blank line included) and the lines of a multi-line
\* block comment are never matched by extract_comments with the same tag:
\* they stay in the residual source verbatim.
C20_Asymmetry ==
    /\ op = "comment_extract" =>
          \E k \in {from_end(args.line, Len(splitlines(args.source)))} :
          \E kept \in {split(got.source, NL)} :
              \/ extract_line_comment(parser, splitlines(args.source)[k + 1],
                                      args.tag) # None
              \/ \E j \in 1..Len(kept) : kept[j] = split(out, NL)[k + 1]
    /\ (op = "insert_extract" /\ args.block /\ contains(args.text, <<NL>>)) =>
          contains(got.source, block_comment(parser, args.text, args.tag, FALSE))

\* ------------------------------------------- Fingerprinter on syntax trees
\* A node of the tree built by the external grammar: its type, is_named, the
\* bytes of a leaf and the children of an inner node.
Leaf(type, named, text) ==
    [type |-> type, named |-> named, text |-> text, children |-> << >>]
Inner(type, named, children) ==
    [type |-> type, named |-> named, text |-> << >>, children |-> children]

\* `'comment' in child.type.lower()`
CommentTypes == {"comment", "Comment", "block_comment"}
is_comment(node) == node.type \in CommentTypes

\* source_bytes[node.start_byte:node.end_byte]
RECURSIVE bytes(_)
bytes(node) ==
    Val(LAMBDA v :
            IF v.children = << >> THEN v.text
            ELSE bytes(Head(v.children))
                 \o (IF Len(v.children) = 1 THEN << >>
                     ELSE bytes([v EXCEPT !.children = Tail(@)])),
        node)

\* hashlib.sha256(s).hexdigest()[:32]: distinct byte strings, distinct values
sha256(s) == [sha256 |-> s]

\* `any(c.is_named for c in node.children)`
has_named_child(node) == \E k \in 1..Len(node.children) : node.children[k].named

\* the named children kept, the hashes of the tokens kept and, for each of
\* them, the number of named children kept before it
RECURSIVE node_to_dict_tree(_)
RECURSIVE for_child(_, _, _), for_child_unplaced(_, _, _)
\* every token recorded as standing before the first named child
for_child_unplaced(children, k, named_index) ==
    IF k > Len(children)
    THEN [children |-> << >>, tokens |-> << >>, token_positions |-> << >>]
    ELSE Val(LAMBDA child :
            IF is_comment(child) THEN for_child_unplaced(children, k + 1, named_index)
            ELSE IF child.named
            THEN Val(LAMBDA r : [r EXCEPT !.children = <<node_to_dict_tree(child)>> \o @],
                     for_child_unplaced(children, k + 1, named_index + 1))
            ELSE IF Len(bytes(child)) > 0
            THEN Val(LAMBDA r : [r EXCEPT !.tokens = <<sha256(bytes(child))>> \o @,
                                          !.token_positions = <<0>> \o @],
                     for_child_unplaced(children, k + 1, named_index))
            ELSE for_child_unplaced(children, k + 1, named_index),
         children[k])

for_child(children, k, named_index) ==
    IF k > Len(children)
    THEN [children |-> << >>, tokens |-> << >>, token_positions |-> << >>]
    ELSE Val(LAMBDA child :
            IF is_comment(child) THEN for_child(children, k + 1, named_index)
            ELSE IF child.named
            THEN Val(LAMBDA r : [r EXCEPT !.children = <<node_to_dict_tree(child)>> \o @],
                     for_child(children, k + 1, named_index + 1))
            ELSE IF Len(bytes(child)) > 0
            THEN Val(LAMBDA r : [r EXCEPT !.tokens = <<sha256(bytes(child))>> \o @,
                                          !.token_positions = <<named_index>> \o @],
                     for_child(children, k + 1, named_index))
            ELSE for_child(children, k + 1, named_index),
         children[k])

\* node_to_dict of _parse; an absent key has the value << >> (None for
\* value_meta)
node_to_dict_tree(node) ==
    Val2(LAMBDA v, r :
            [type |-> v.type,
             named |-> v.named,
             value_meta |-> IF v.named /\ ~has_named_child(v) /\ Len(bytes(v)) > 0
                            THEN [length |-> Len(bytes(v)),
                                  value_hash |-> sha256(bytes(v))]
                            ELSE None,
             children |-> r.children,
             tokens |-> r.tokens,
             token_positions |-> r.token_positions],
         node, for_child(node.children, 1, 0))

\* json.dumps of {'language', 'version', 'tree'}
parse_tree(language, root) ==
    [language |-> language, version |-> 1, tree |-> node_to_dict_tree(root)]

\* the node at a path (the indexes of the children to follow from the root)
RECURSIVE at(_, _)
at(node, path) ==
    IF path = << >> THEN node ELSE at(node.children[Head(path)], Tail(path))

\* the tree with the node at the path replaced
RECURSIVE put(_, _, _)
put(node, path, new) ==
    IF path = << >> THEN new
    ELSE [node EXCEPT !.children[Head(path)] = put(@, Tail(path), new)]

\* the paths of the nodes of a tree, two levels deep
Paths(root) ==
    {<< >>}
    \cup {<<a>> : a \in 1..Len(root.children)}
    \cup UNION {{<<a, b>> : b \in 1..Len(root.children[a].children)} :
                  a \in 1..Len(root.children)}

\* l without its k-th element
remove(l, k) == SubSeq(l, 1, k - 1) \o SubSeq(l, k + 1, Len(l))

\* l with its k-th and j-th elements exchanged
swap(l, k, j) == [l EXCEPT ![k] = l[j], ![j] = l[k]]

\* nodes as the grammars produce them: identifiers, anonymous tokens, named
\* comment nodes, anonymous comment tokens, statements and blocks
identifier(x) == Leaf("identifier", TRUE, <<x>>)
token(x) == Leaf(x, FALSE, <<x>>)
comment_node(x) == Leaf("comment", TRUE, <<"//", x>>)
comment_token(x) == Leaf("comment", FALSE, <<"//", x>>)
assignment(x, y) == Inner("assignment", TRUE, <<identifier(x), token("="), identifier(y)>>)

Trees ==
    {Inner("module", TRUE,
           <<assignment("a", "b"), comment_node("c1"), assignment("b", "a")>>),
     Inner("module", TRUE,
           <<Inner("block", TRUE, <<token("{"), assignment("a", "b"),
                                    comment_node("c1"), token("}")>>),
             identifier("a")>>),
     Inner("module", TRUE,
           <<Inner("block", TRUE, <<token("{"), token("}")>>)>>),
     Inner("module", TRUE,
           <<Inner("block", TRUE, <<token("{"), comment_node("c1"), token("}")>>)>>),
     Inner("module", TRUE,
           <<Inner("string", TRUE, <<token("'"), comment_token("c1"), token("'")>>),
             identifier("a")>>),
     Inner("module", TRUE,
           <<identifier("a"), token(";"), comment_token("c1"),
             identifier("b"), token(";")>>),
     Inner("module", TRUE,
           <<assignment("a", "b"), assignment("a", "b"), token(";"), token(";")>>)}

\* the bytes a comment can be given, and the comments that can be inserted
CommentBytes == {<<"//", "c1">>, <<"//", "c2">>, <<"//", "longer", "c3">>}
NewComments == {comment_node("c2"), comment_token("c2"),
                Leaf("block_comment", TRUE, <<"/*", "c2", "*/">>)}

\* the session variables of a state in which no session runs
no_session ==
    /\ mode = "review"
    /\ parser = "c"
    /\ lang = << >>
    /\ tmp = FALSE
    /\ file = << >>
    /\ log = << >>
    /\ pc = "call"
    /\ retry = 1
    /\ budget = 1
    /\ context = << >>
    /\ request = load(parser, << >>, << >>)
    /\ site = "top"
    /\ n = 0
    /\ logic = None
    /\ runtime_lang = << >>
    /\ i = 0
    /\ data = NoneData
    /\ err = NoErr
    /\ rv = None
    /\ result = None
    /\ reviewCalls = 0
    /\ fixCalls = 0
    /\ writes = 0
    /\ wrote = FALSE
    /\ attempts = << >>
    /\ logStart = 0
    /\ started = << >>
    /\ passes = 0

TInit ==
    /\ no_session
    /\ tasks = << >>
    /\ op = "none"
    /\ \E t \in Trees : args = [tree |-> t, edited |-> t, path |-> << >>, k |-> 0, j |-> 0]
    /\ out = None
    /\ got = None

\* parse() before and after an edit of the tree
Parsed(edited, path, k, j) ==
    /\ args' = [args EXCEPT !.edited = edited, !.path = path, !.k = k, !.j = j]
    /\ out' = parse_tree(parser, args.tree)
    /\ got' = parse_tree(parser, edited)
    /\ UNCHANGED session

\* the bytes of one comment change
EditComment ==
    /\ op = "none"
    /\ \E path \in Paths(args.tree), text \in CommentBytes :
          /\ is_comment(at(args.tree, path))
          /\ text # at(args.tree, path).text
          /\ Parsed(put(args.tree, path, [at(args.tree, path) EXCEPT !.text = text]),
                    path, 0, 0)
    /\ op' = "edit_comment"

\* a comment becomes the child after the k-th child of a node
InsertComment ==
    /\ op = "none"
    /\ \E path \in Paths(args.tree), c \in NewComments :
          /\ at(args.tree, path).children # << >>
          /\ \E k \in 0..Len(at(args.tree, path).children) :
                Parsed(put(args.tree, path,
                           [at(args.tree, path) EXCEPT !.children = insert(@, k, c)]),
                       path, k, 0)
    /\ op' = "insert_comment"

\* a comment is taken out of the children of its parent
DeleteComment ==
    /\ op = "none"
    /\ \E path \in Paths(args.tree) \ {<< >>} :
          /\ is_comment(at(args.tree, path))
          /\ Parsed(put(args.tree, Front(path),
                        [at(args.tree, Front(path))
                            EXCEPT !.children = remove(@, Last(path))]),
                    path, 0, 0)
    /\ op' = "delete_comment"

\* two children of a node, neither a comment, exchange their places
SwapSiblings ==
    /\ op = "none"
    /\ \E path \in Paths(args.tree) :
       \E k \in 1..Len(at(args.tree, path).children) :
       \E j \in (k + 1)..Len(at(args.tree, path).children) :
          /\ ~is_comment(at(args.tree, path).children[k])
          /\ ~is_comment(at(args.tree, path).children[j])
          /\ Parsed(put(args.tree, path,
                        [at(args.tree, path) EXCEPT !.children = swap(@, k, j)]),
                    path, k, j)
    /\ op' = "swap"

TNext ==
    \/ EditComment
    \/ InsertComment
    \/ DeleteComment
    \/ SwapSiblings

TreeSpec == TInit /\ [][TNext]_vars

\* ------------------------------------------------- Fingerprinter claims
\* C21: comment-text insensitivity.  Changing only the bytes of a comment
\* node or comment token (named or not, under any parent), in its place,
\* leaves the output of parse() unchanged.
C21_CommentTextInsensitive ==
    op = "edit_comment" => got = out

\* C22: comment insertion/removal insensitivity.  Inserting or deleting a
\* whole comment node or token, anywhere in the tree and whatever the other
\* children of its parent, leaves the output of parse() unchanged.
C22_CommentEditInsensitive ==
    op \in {"insert_comment", "delete_comment"} => got = out

\* the canonical form of a child: its dict when named, the hash of its bytes
\* when it is a token
canonical(node) ==
    IF node.named THEN node_to_dict_tree(node) ELSE sha256(bytes(node))

\* C23: semantic sensitivity.  Exchanging two sibling nodes, neither a
\* comment, whose canonical forms differ changes the output of parse()
\* (distinct byte strings having distinct hashes).
C23_SemanticSensitive ==
    (/\ op = "swap"
     /\ canonical(at(args.tree, args.path).children[args.k])
          # canonical(at(args.tree, args.path).children[args.j])) =>
        got # out

\* a statement and a token exchanged around a comment
C23_Witness ==
    /\ op = "swap"
    /\ args.tree = Inner("module", TRUE,
                         <<identifier("a"), token(";"), comment_token("c1"),
                           identifier("b"), token(";")>>)
    /\ args.path = << >>
    /\ args.k = 1
    /\ args.j = 2
    /\ got # out

\* ------------------------------------------------ TheCodereview.review_list
MaxFiles == 2
MaxWorkers == 2

\* the keys of ext2parser(): the extensions of the registered parsers
extensions == {".py", ".c", ".html"}

\* the artifacts a list may name: one file name in two directories, a second
\* supported file and a file that no parser handles
SrcPaths ==
    {[dir |-> "a", stem |-> "util", ext |-> ".py"],
     [dir |-> "b", stem |-> "util", ext |-> ".py"],
     [dir |-> "a", stem |-> "main", ext |-> ".c"],
     [dir |-> "a", stem |-> "notes", ext |-> ".txt"]}

FileLists == UNION {[1..len -> SrcPaths] : len \in 1..MaxFiles}

\* Path(src_path).resolve(): the file _load reads and _update writes
artifact(src_path) == [dir |-> src_path.dir, name |-> <<src_path.stem, src_path.ext>>]

\* _log(src_path, tmp): <tmp>/<file name>.log
log_path(src_path) == [dir |-> "tmp", name |-> <<src_path.stem, src_path.ext, ".log">>]

\* _dump('stdout.txt', text): <tmp>/<ai>.stdout.txt, of the one executor that
\* every session of a TheCodereview shares
dump_path == [dir |-> "tmp", name |-> <<"ai", ".stdout.txt">>]

\* review_code(src_path, fix) up to the call of reviewer.review: the session
\* that runs and its retry argument.  self.reviewer is a TheReviewer, which
\* has no review method; self.fixer is the object of ReviewFile.createFixer(),
\* the TheReviewFix
review_code(src_path, fix) ==
    IF src_path.ext \notin extensions
    THEN [session |-> "none", retry |-> 0, rv |-> "None"]
    ELSE IF fix > 0
         THEN [session |-> "TheReviewFix", retry |-> fix, rv |-> "None"]
         ELSE [session |-> "TheReviewer", retry |-> 1, rv |-> "AttributeError"]

queued == [pc |-> "queued", session |-> "none", retry |-> 0, left |-> 0,
           rv |-> "None", wrote |-> {}, calls |-> 0]

PoolInit ==
    /\ no_session
    /\ op = "none"
    /\ \E files \in FileLists, parallel \in BOOLEAN, fix \in 0..MaxRetry,
          cpu \in 1..MaxWorkers, dir \in BOOLEAN :
          args = [files |-> files, parallel |-> parallel, fix |-> fix,
                  cpu |-> cpu, tmp |-> dir]
    /\ out = None
    /\ got = None
    /\ tasks = [t \in 1..Len(args.files) |-> queued]

active(t) == tasks[t].pc \notin {"queued", "done", "raised"}

\* ThreadPoolExecutor(max_workers=os.cpu_count() or 1), or the plain loop
width == IF args.parallel THEN args.cpu ELSE 1

unchanged_by_pool == <<mode, parser, lang, tmp, file, log, pc, retry, context, request,
                       site, n, logic, runtime_lang, i, data, err, rv, result, budget,
                       reviewCalls, fixCalls, writes, wrote, attempts, logStart,
                       started, passes, op, args, out, got>>

\* a worker takes the next entry of the list and calls review_code; the plain
\* loop ends at the first call that raises
StartTask ==
    /\ op = "none"
    /\ \E t \in 1..Len(tasks) :
          /\ tasks[t].pc = "queued"
          /\ \A u \in 1..(t - 1) : tasks[u].pc # "queued"
          /\ Cardinality({u \in 1..Len(tasks) : active(u)}) < width
          /\ args.parallel \/ \A u \in 1..(t - 1) : tasks[u].pc # "raised"
          /\ \E d \in {review_code(args.files[t], args.fix)} :
                tasks' = [tasks EXCEPT ![t] =
                            [@ EXCEPT !.session = d.session, !.retry = d.retry,
                                      !.left = d.retry, !.rv = d.rv,
                                      !.pc = CASE d.session = "none" -> "done"
                                               [] d.session = "TheReviewer" -> "raised"
                                               [] OTHER -> "load"]]
    /\ UNCHANGED unchanged_by_pool

\* review(): _load reads the artifact; an empty input, or a prior review
\* that leaves nothing to fix, ends the session
LoadTask ==
    /\ \E t \in 1..Len(tasks), go \in BOOLEAN :
          /\ tasks[t].pc = "load"
          /\ tasks' = [tasks EXCEPT ![t] =
                         [@ EXCEPT !.pc = IF go THEN "exec" ELSE "done",
                                   !.rv = IF go THEN @ ELSE "review"]]
    /\ UNCHANGED unchanged_by_pool

\* reviewer.exec: a run that exits with 0 dumps its stdout, then the result
\* is accepted or not
ExecTask ==
    /\ \E t \in 1..Len(tasks), exited \in BOOLEAN, ok \in BOOLEAN :
          /\ tasks[t].pc = "exec"
          /\ tasks' = [tasks EXCEPT ![t] =
                         [@ EXCEPT !.pc = IF exited /\ ok THEN "update" ELSE "error",
                                   !.calls = 1,
                                   !.wrote = IF exited /\ args.tmp
                                             THEN @ \cup {dump_path} ELSE @]]
    /\ UNCHANGED unchanged_by_pool

\* _error appends the record to the log; the last attempt then keeps the
\* metadata of a rejected result, or the pass gives up
ErrorTask ==
    /\ \E t \in 1..Len(tasks), keep \in BOOLEAN :
          /\ tasks[t].pc = "error"
          /\ tasks' = [tasks EXCEPT ![t] =
                         [@ EXCEPT !.pc = IF keep THEN "update" ELSE "done",
                                   !.wrote = IF args.tmp
                                             THEN @ \cup {log_path(args.files[t])}
                                             ELSE @]]
    /\ UNCHANGED unchanged_by_pool

\* _update writes the artifact; a fix session with tries left goes round again
UpdateTask ==
    /\ \E t \in 1..Len(tasks), again \in BOOLEAN :
          /\ tasks[t].pc = "update"
          /\ again => tasks[t].left > 1
          /\ tasks' = [tasks EXCEPT ![t] =
                         [@ EXCEPT !.pc = IF again THEN "load" ELSE "done",
                                   !.left = IF again THEN @ - 1 ELSE @,
                                   !.rv = "review",
                                   !.wrote = @ \cup {artifact(args.files[t])}]]
    /\ UNCHANGED unchanged_by_pool

\* review_list returns the reviews by file, or raises what a call raised
ReturnList ==
    /\ op = "none"
    /\ \A t \in 1..Len(tasks) : ~active(t)
    /\ \/ \A t \in 1..Len(tasks) : tasks[t].pc # "queued"
       \/ ~args.parallel /\ \E t \in 1..Len(tasks) : tasks[t].pc = "raised"
    /\ op' = "review_list"
    /\ out' = IF \E t \in 1..Len(tasks) : tasks[t].pc = "raised"
              THEN <<"<AttributeError>">>
              ELSE {args.files[t] : t \in {u \in 1..Len(tasks) : tasks[u].rv = "review"}}
    /\ UNCHANGED <<session, args, got>>

PoolNext ==
    \/ StartTask
    \/ LoadTask
    \/ ExecTask
    \/ ErrorTask
    \/ UpdateTask
    \/ ReturnList

PoolSpec == PoolInit /\ [][PoolNext]_vars

\* ------------------------------------------------------- worker pool claims
\* C24: sessions running concurrently in the worker pool for distinct artifact
\* paths never write the same file, and the diagnostic log of an artifact is
\* written by the sessions of that artifact path only.
C24_SessionIndependence ==
    \A t, u \in 1..Len(tasks) :
        args.files[t] # args.files[u] =>
            /\ (active(t) /\ active(u)) => tasks[t].wrote \cap tasks[u].wrote = {}
            /\ log_path(args.files[t]) \in tasks[t].wrote
                  => log_path(args.files[t]) \notin tasks[u].wrote

\* C25: when review_list runs with parallel=True, at no time are two sessions
\* active on the same artifact path.
C25_NoOverlap ==
    args.parallel =>
        \A t, u \in 1..Len(tasks) :
            (t # u /\ active(t) /\ active(u)) => args.files[t] # args.files[u]

\* C26: review_code on a supported extension runs a review-only session with
\* a budget of one attempt when fix = 0 and a fix session with budget N when
\* fix = N > 0; on an unsupported extension it returns None without an AI
\* call or a write.
C26_ModeDispatch ==
    \A t \in 1..Len(tasks) :
        tasks[t].pc # "queued" =>
            IF args.files[t].ext \notin extensions
            THEN /\ tasks[t].pc = "done"
                 /\ tasks[t].rv = "None"
                 /\ tasks[t].calls = 0
                 /\ tasks[t].wrote = {}
            ELSE IF args.fix = 0
                 THEN tasks[t].session = "TheReviewFile" /\ tasks[t].retry = 1
                 ELSE tasks[t].session = "TheReviewFix" /\ tasks[t].retry = args.fix

\* ------------------------------------------------------ TheReviewFile._th
MaxOrdinal == 125

\* _th without the exception for the teens
th_by_last_digit(count) ==
    <<count, CASE count % 10 = 1 -> "st"
               [] count % 10 = 2 -> "nd"
               [] count % 10 = 3 -> "rd"
               [] OTHER -> "th">>

\* _th(i): f"{i}{th}", as the pair of the number and its suffix
th(count) ==
    LET d == IF (count % 100) \div 10 # 1 THEN count % 10 ELSE 0
    IN  <<count, CASE d = 1 -> "st"
                   [] d = 2 -> "nd"
                   [] d = 3 -> "rd"
                   [] OTHER -> "th">>

OrdinalInit ==
    /\ no_session
    /\ tasks = << >>
    /\ op = "none"
    /\ \E count \in 1..MaxOrdinal : args = [i |-> count]
    /\ out = None
    /\ got = None

\* self._th(i + 1) of the progress line of an attempt
DoTh ==
    /\ op = "none"
    /\ op' = "_th"
    /\ out' = th(args.i)
    /\ UNCHANGED <<session, args, got>>

OrdinalNext == DoTh

OrdinalSpec == OrdinalInit /\ [][OrdinalNext]_vars

\* C27: the label of attempt number i >= 1 is i followed by 'th' when the tens
\* digit of i is 1, and otherwise by 'st', 'nd', 'rd' when the last digit is
\* 1, 2, 3 and by 'th' in all other cases.
C27_Ordinal ==
    op = "_th" =>
        /\ args.i >= 1
        /\ out[1] = args.i
        /\ out[2] = IF (args.i \div 10) % 10 = 1 THEN "th"
                    ELSE IF args.i % 10 = 1 THEN "st"
                    ELSE IF args.i % 10 = 2 THEN "nd"
                    ELSE IF args.i % 10 = 3 THEN "rd"
                    ELSE "th"

C27_Witness == op = "_th" /\ args.i = 112 /\ out = <<112, "th">>

\* ------------------------------------------------------ diagnostic log claims
\* the text _error writes for a record of the log
error_text(rec) ==
    <<"#", rec.n, ": ", rec.err, NL>>
    \o (IF rec.output # None THEN <<"<<<", NL>> \o rec.output \o <<NL, ">>>", NL>>
        ELSE << >>)

\* the running _review handles the result of its latest attempt
handles_failure == pc = "handle" /\ ~Matched(Len(attempts))
handles_success == pc = "handle" /\ Matched(Len(attempts))

\* C28: when a log is configured, the k-th attempt of the running review
\* appends, if it fails, one record '#k: <error>' followed by the rejected
\* output between '<<<' and '>>>' exactly when the attempt returned a result
\* (fingerprint mismatch) and by nothing for a hard error; a successful
\* attempt appends nothing, and content already in the log is never changed
\* or removed.
C28_LogRecords ==
    [][/\ Len(log') >= Len(log)
       /\ SubSeq(log', 1, Len(log)) = log
       /\ handles_success => log' = log
       /\ (handles_failure /\ ~tmp) => log' = log
       /\ (handles_failure /\ tmp) =>
             \E k \in {Len(attempts)} :
                /\ k = reviewCalls
                /\ Len(log') = Len(log) + 1
                /\ error_text(log'[Len(log')]) =
                      <<"#", k, ": ", attempts[k].err, NL>>
                      \o (IF Mismatched(k)
                          THEN <<"<<<", NL>> \o attempts[k].data.output \o <<NL, ">>>", NL>>
                          ELSE << >>)]_vars

\* C28 witness: the log holds the record of a hard error and, after it, the
\* record of a mismatch with its rejected output
C28_Witness ==
    /\ tmp /\ Len(attempts) = 2 /\ pc = "ret" /\ Len(log) = logStart + 2
    /\ HardError(1) /\ Mismatched(2)
    /\ error_text(log[logStart + 1]) = <<"#", 1, ": ", attempts[1].err, NL>>
    /\ error_text(log[logStart + 2]) =
          <<"#", 2, ": ", WARN_MISMATCH, NL, "<<<", NL>> \o attempts[2].data.output
          \o <<NL, ">>>", NL>>

\* ------------------------------------------- CommentTagger: the two forms
FormInit ==
    /\ mode = "review"
    /\ parser \in Grammars
    /\ lang = << >>
    /\ tmp = FALSE
    /\ file = << >>
    /\ log = << >>
    /\ pc = "call"
    /\ retry = 1
    /\ budget = 1
    /\ context = << >>
    /\ request = load(parser, << >>, << >>)
    /\ site = "top"
    /\ n = 0
    /\ logic = None
    /\ runtime_lang = << >>
    /\ i = 0
    /\ data = NoneData
    /\ err = NoErr
    /\ rv = None
    /\ result = None
    /\ reviewCalls = 0
    /\ fixCalls = 0
    /\ writes = 0
    /\ wrote = FALSE
    /\ attempts = << >>
    /\ logStart = 0
    /\ started = << >>
    /\ passes = 0
    /\ tasks = << >>
    /\ op = "none"
    /\ \E s \in {<< >>, <<"a", NL, "b">>}, t \in Tags, c \in Texts :
          args = [source |-> s, tag |-> t, text |-> c,
                  line |-> 0, block |-> FALSE, force |-> FALSE]
    /\ out = None
    /\ got = None

\* line_comment(comment, tag, force)
DoLineComment ==
    /\ op = "none"
    /\ \E force \in BOOLEAN :
          /\ args' = [args EXCEPT !.force = force]
          /\ out' = line_comment(parser, args.text, args.tag, force)
    /\ op' = "line_comment"
    /\ UNCHANGED <<session, got>>

\* block_comment(comment, tag, force)
DoBlockComment ==
    /\ op = "none"
    /\ \E force \in BOOLEAN :
          /\ args' = [args EXCEPT !.force = force, !.block = TRUE]
          /\ out' = block_comment(parser, args.text, args.tag, force)
    /\ op' = "block_comment"
    /\ UNCHANGED <<session, got>>

\* insert_comment(source, line, comment, tag, block), and the same call
\* asking for the other form
DoInsertForm ==
    /\ op = "none"
    /\ \E line \in -1..1, block \in BOOLEAN :
          /\ args' = [args EXCEPT !.line = line, !.block = block]
          /\ out' = insert_comment(parser, args.source, line, args.text, args.tag, block)
          /\ got' = insert_comment(parser, args.source, line, args.text, args.tag, ~block)
    /\ op' = "insert_comment"
    /\ UNCHANGED session

FormNext ==
    \/ DoLineComment
    \/ DoBlockComment
    \/ DoInsertForm

FormSpec == FormInit /\ [][FormNext]_vars

has_line_form == line_comment_prefix(parser) # << >>
has_block_form == block_comment_prefix(parser) # << >>

\* the lines of a comment in the line form: each line that is not blank
\* starts with the prefix and the tag
in_line_form(c) ==
    \A k \in 1..Len(split(c, NL)) :
        \/ strip(split(c, NL)[k], Whitespace) = << >>
        \/ startswith(split(c, NL)[k], line_comment_prefix(parser) \o args.tag)

\* a comment in the block form: from the prefix and the tag to the suffix
in_block_form(c) ==
    /\ startswith(c, block_comment_prefix(parser) \o args.tag)
    /\ endswith(c, block_comment_suffix(parser))

\* C29: block_comment falls back to the line form when the language has no
\* block form, and line_comment to the block form when it has no line form,
\* unless the caller forbids the fallback; the fallback ends, yields no
\* comment when neither form exists or the fallback is forbidden, and
\* insert_comment then fails instead of inserting.
C29_FormFallback ==
    /\ (op = "block_comment" /\ ~has_block_form) =>
          IF args.force \/ ~has_line_form THEN out = None
          ELSE /\ out = line_comment(parser, args.text, args.tag, TRUE)
               /\ out # None /\ in_line_form(out)
    /\ (op = "line_comment" /\ ~has_line_form) =>
          IF args.force \/ ~has_block_form THEN out = None
          ELSE /\ out = block_comment(parser, args.text, args.tag, TRUE)
               /\ out # None /\ (out = ValueError \/ in_block_form(out))
    /\ (op = "insert_comment" /\ ~has_line_form /\ ~has_block_form) =>
          out = ValueError
    /\ (op = "insert_comment" /\ (has_line_form \/ has_block_form)) =>
          /\ (args.block /\ ~has_block_form) => (out = got /\ out # ValueError)
          /\ (~args.block /\ ~has_line_form) => out = got

\* C29 witness: bash has no block form; block_comment gives the line form
C29_Witness ==
    /\ op = "block_comment" /\ parser = "bash" /\ ~args.force
    /\ args.text = <<"x", NL, "y">>
    /\ out = <<"#">> \o args.tag \o <<SP, "x", NL, "#">> \o args.tag \o <<SP, "y">>

\* ----------------------------------------------------------- persist claims
\* the code _update keeps of the output: trimmed, without tagged comments
persisted_code(output) ==
    extract_comments(parser,
                     extract_comments(parser, strip(output, {NL}), REVIEW_TAG, 0, -1).source,
                     REQ_TAG, 0, -1).source

\* a field of the AI's data that yields a section: a non-empty str, or a
\* list with a str that is not blank
populated(d, key) ==
    IF key \in {"overview", "review", "design"}
    THEN isstr(get(d, key)) /\ get(d, key) # << >>
    ELSE key \in d.keys /\ non_blank(d[key]) # << >>

Sections ==
    <<"overview", "review", "design", "notes", "issues", "imperfections", "impediments">>

SectionTitle(key) ==
    CASE key = "overview" -> Title("Overview")
      [] key = "review" -> Title("Review")
      [] key = "design" -> Title("Design")
      [] key = "notes" -> Title("Notes")
      [] key = "issues" -> Title("Issues")
      [] key = "imperfections" -> Title("Imperfections")
      [] key = "impediments" -> Title("Impediments")

\* the lines of the metadata text in a tag block at the top of the artifact
metadata_lines(text) ==
    IF line_comment_prefix(parser) # << >>
    THEN [k \in 1..Len(split(text, NL)) |->
             IF split(text, NL)[k] = << >> THEN << >>
             ELSE line_comment_prefix(parser) \o REVIEW_TAG \o <<SP>> \o split(text, NL)[k]]
    ELSE <<block_comment_prefix(parser) \o REVIEW_TAG>> \o split(text, NL)
         \o <<block_comment_suffix(parser)>>

\* _review has just written the artifact
persisted == pc = "ret" /\ writes > 0

\* C30: the written artifact reads from the top: review-metadata block, then
\* the requirements block if the requirements text is non-empty, then the
\* code; the metadata block starts with the 'Reviewed by' header line, then
\* the '$lang:' line, then one section per populated field in the order of
\* the fields, and ends with the closing marker.
C30_PersistLayout ==
    persisted =>
        \E meta \in {rv}, top \in {line_comment(parser, rv, REVIEW_TAG, FALSE)},
           req \in {IF request.requirements # << >>
                    THEN <<line_comment(parser, request.requirements \o <<NL>>,
                                        REQ_TAG, FALSE)>>
                    ELSE << >>} :
        \E titles \in {SelectSeq(split(meta, NL),
                                 LAMBDA l : \E k \in 1..Len(Sections) :
                                               l = SectionTitle(Sections[k]))} :
           /\ file = join(<<top>> \o req \o splitlines(persisted_code(data.output)))
           /\ SubSeq(splitlines(file), 1, Len(metadata_lines(meta))) = metadata_lines(meta)
           /\ split(meta, NL)[1] = HEADER
           /\ split(meta, NL)[2] = LANG \o <<SP>> \o runtime_lang
           /\ split(meta, NL)[Len(split(meta, NL)) - 1] = CLOSING
           /\ titles = SelectSeq([k \in 1..Len(Sections) |->
                                     IF populated(data, Sections[k])
                                     THEN SectionTitle(Sections[k]) ELSE << >>],
                                 LAMBDA l : l # << >>)

\* C30 witness: a python artifact written with a requirement: the metadata
\* block, the requirements block and the code, in that order
C30_Witness ==
    /\ persisted /\ parser = "python" /\ request.requirements = <<"must">>
    /\ populated(data, "issues")
    /\ splitlines(file)[1] = <<"#">> \o REVIEW_TAG \o <<SP>> \o HEADER
    /\ \E k \in 2..Len(splitlines(file)) :
          /\ splitlines(file)[k] = <<"#">> \o REQ_TAG \o <<SP, "must">>
          /\ \E j \in 1..(k - 1) : splitlines(file)[j] = <<"#">> \o REVIEW_TAG \o <<SP>> \o CLOSING
          /\ \E j \in (k + 1)..Len(splitlines(file)) : splitlines(file)[j] = <<"x">>

\* ------------------------------------------------------ accumulation claims
\* the 'Reviewed by' header lines of an artifact
headers(f) == {k \in 1..Len(f) : f[k] = HEADER[1]}

\* C31: after each persist the artifact contains exactly one review-metadata
\* block (one 'Reviewed by' header): the blocks of earlier sessions and the
\* tagged lines of the AI's output are removed before the new one is inserted.
C31_OneMetadataBlock == persisted => Cardinality(headers(file)) = 1

\* ------------------------------------------------- comment language claims
\* the caller's overrides: none, blank, and a language with padding
LangOverrides == {<< >>, <<SP>>, <<SP, "German">>}

\* artifacts persisted by an earlier session in French, with a '$lang:' line
\* of two words, and with a '$lang:' line without a word; and plain code
LangFiles ==
    {CodeA \o <<NL>>}
    \cup {update_source(l, "python", Dict(<<"summary">>, <<"sound">>, f[1], f[2], CodeA),
                        << >>) :
            l \in {<<"French">>, <<"French", SP, "formal">>, << >>},
            f \in {<< << >>, << >> >>, << << <<"bug">> >>, << >> >>}}

LangInit ==
    /\ mode \in {"review", "fix"}
    /\ parser = "python"
    /\ lang \in LangOverrides
    /\ tmp = FALSE
    /\ file \in LangFiles
    /\ log = << >>
    /\ pc = "start"
    /\ retry \in 1..MaxRetry
    /\ budget = retry
    /\ context \in Contexts
    /\ request = load(parser, << >>, << >>)
    /\ site = "top"
    /\ n = 0
    /\ logic = None
    /\ runtime_lang = << >>
    /\ i = 0
    /\ data = NoneData
    /\ err = NoErr
    /\ rv = None
    /\ result = None
    /\ reviewCalls = 0
    /\ fixCalls = 0
    /\ writes = 0
    /\ wrote = FALSE
    /\ attempts = << >>
    /\ logStart = 0
    /\ started = << >>
    /\ passes = 0
    /\ tasks = << >>
    /\ op = "none"
    /\ args = << >>
    /\ out = None
    /\ got = None

LangSpec == LangInit /\ [][Next]_vars

\* the first whitespace-delimited word of a text, << >> when there is none
first_word(s) ==
    Val(LAMBDA t :
            IF \E k \in 1..Len(t) : t[k] \in Whitespace
            THEN SubSeq(t, 1, (CHOOSE k \in 1..Len(t) :
                                  /\ t[k] \in Whitespace
                                  /\ \A j \in 1..(k - 1) : t[j] \notin Whitespace) - 1)
            ELSE t,
        strip(s, Whitespace))

\* the word after '$lang:' on the first prior-review line of the artifact
\* that starts with '$lang:', << >> without such a line or word
directive_word(f) ==
    Val(LAMBDA reviews :
            IF \E k \in 1..Len(reviews) : startswith(reviews[k], LANG)
            THEN Val(LAMBDA l : first_word(SubSeq(l, Len(LANG) + 1, Len(l))),
                     reviews[CHOOSE k \in 1..Len(reviews) :
                                /\ startswith(reviews[k], LANG)
                                /\ \A j \in 1..(k - 1) : ~startswith(reviews[j], LANG)])
            ELSE << >>,
        extract_comments(parser, f, REVIEW_TAG, 0, -1).comments)

\* the language the claim selects for a session on the artifact f
selected_language(f) ==
    IF strip(lang, Whitespace) # << >> THEN strip(lang, Whitespace)
    ELSE IF directive_word(f) # << >> THEN directive_word(f)
    ELSE English

\* C32: the language used for a session is the caller's override when it is
\* non-blank; otherwise the first word after '$lang:' on the first prior-review
\* line that starts with '$lang:'; otherwise 'English'; the selected language
\* is the one written in the persisted '$lang:' line.
C32_LanguageSelection ==
    /\ pc \in {"loop", "handle", "ret"} => runtime_lang = selected_language(started[1])
    /\ pc \in {"fix", "fixed"} =>
          strip(request.comment_language, Whitespace) = selected_language(started[1])
    /\ persisted =>
          splitlines(file)[2] = line_comment_prefix(parser) \o REVIEW_TAG
                                \o <<SP>> \o LANG \o <<SP>> \o selected_language(started[1])

\* ------------------------------------------------------- empty input claims
\* the code-only input _load builds from an artifact
code_only(f) ==
    strip(extract_comments(parser,
                           extract_comments(parser, f, REVIEW_TAG, 0, -1).source,
                           REQ_TAG, 0, -1).source,
          {NL})

\* C33: if the code-only input is empty after the tagged comments and the
\* surrounding newlines are stripped, review() of TheReviewFile and of
\* TheReviewFix returns the empty string (not None) without invoking the AI
\* and without writing the artifact or the log.
C33_EmptyInput ==
    [][(pc = "start" /\ ~read_fails(file) /\ code_only(file) = << >>) =>
          /\ pc' = "done"
          /\ result' = << >>
          /\ result' # None
          /\ file' = file
          /\ log' = log
          /\ reviewCalls' = reviewCalls
          /\ fixCalls' = fixCalls
          /\ writes' = writes]_vars

\* C33 witness: a fix session on an artifact holding only a requirement
\* comment has returned ''
C33_Witness ==
    /\ pc = "done" /\ mode = "fix" /\ result = << >>
    /\ started[1] = Requirement(parser) \o <<NL>>
    /\ file = started[1] /\ log = << >> /\ fixCalls = 0 /\ ~wrote /\ passes = 0

\* ------------------------------------------------- review inside the fix loop
\* a review pass of a fix session is running or has just returned
in_fix_pass == mode = "fix" /\ pc \in {"loop", "handle", "ret"}

\* the outcome of a standalone review session with a budget of one attempt
\* on the working code: the artifact, the value returned and the writes
standalone_outcome ==
    /\ n = 1
    /\ Len(attempts) <= 1
    /\ reviewCalls = Len(attempts)
    /\ logic = parse(parser, request.input)
    /\ (pc = "ret" /\ Len(attempts) = 1) =>
          /\ Matched(1) =>
                /\ writes = 1
                /\ file = update_source(runtime_lang, parser, attempts[1].data,
                                        request.requirements)
                /\ rv = update_txt(runtime_lang, attempts[1].data)
          /\ Mismatched(1) =>
                /\ writes = 1
                /\ file = update_source(runtime_lang, parser,
                                        [attempts[1].data EXCEPT !.output = request.input],
                                        request.requirements)
                /\ rv = update_txt(runtime_lang, attempts[1].data)
          /\ HardError(1) => (writes = 0 /\ rv = None)

extract_kept(p, src, tag, first, last0) ==
    Val2(LAMBDA ls, last :
            IF last < first THEN ls
            ELSE SubSeq(ls, 1, first)
                 \o extract_scan(p, ls, tag, first, last + 1).kept
                 \o SubSeq(ls, last + 2, Len(ls)),
         splitlines(src), resolved_last(src, last0))

\* the elements of a list at the positions of a set, in the order of the list
at_positions(ls, S) ==
    Val(LAMBDA idx : [k \in 1..Len(idx) |-> ls[idx[k]]],
        SelectSeq([k \in 1..Len(ls) |-> k], LAMBDA k : k \in S))

\* C35: extraction partitions the lines: every line outside the range is
\* kept verbatim, every line inside it is either kept verbatim or removed and
\* contributes exactly one entry to the comment list, kept lines and comments
\* appear in their original order, and the number of comments plus the number
\* of kept lines is the original line count.
C35_Partition ==
    op = "extract" =>
        \E ls \in {splitlines(args.source)},
           kept \in {extract_kept(parser, args.source, args.tag, args.first, args.last)} :
        \E last \in {resolved_last(args.source, args.last)} :
           /\ Len(got.comments) + Len(kept) = Len(ls)
           /\ got.source = IF last < args.first THEN args.source ELSE join(kept)
           /\ \E removed \in SUBSET {k \in 1..Len(ls) : args.first < k /\ k <= last + 1} :
                 /\ kept = at_positions(ls, (1..Len(ls)) \ removed)
                 /\ got.comments =
                       at_positions([k \in 1..Len(ls) |->
                                        extract_line_comment(parser,
                                                             strip(ls[k], Whitespace),
                                                             args.tag)],
                                    removed)
                 /\ \A k \in 1..Len(got.comments) : got.comments[k] # None

\* C35 witness: of the two lines of the range the first, a tagged comment, is
\* removed and the second is kept
C35_Witness ==
    /\ op = "extract" /\ parser = "c"
    /\ args.source = <<"//">> \o REVIEW_TAG \o <<SP, "old", NL, "a">>
    /\ args.tag = REVIEW_TAG /\ args.first = 0 /\ args.last = 1
    /\ got.comments = << <<"old">> >>
    /\ got.source = <<"a">>

\* ------------------------------------------------------ requirement claims
\* the requirement comments _load extracts from an artifact
requirements_of(f) ==
    extract_comments(parser,
                     extract_comments(parser, f, REVIEW_TAG, 0, -1).source,
                     REQ_TAG, 0, -1).comments

\* C36: requirements survive every session: after any step that persists,
\* extracting the requirements tag from the artifact yields the sequence
\* extracted at load, in the same order, and a session that fails leaves the
\* artifact untouched.
C36_RequirementsSurvive ==
    pc = "ret" =>
        /\ writes > 0 => requirements_of(file) = requirements_of(started[1])
        /\ (writes = 0 /\ rv = None) => file = started[1]

\* ------------------------------------------------------ last-attempt claims
\* every attempt of the running _review failed, by a hard error or by a
\* fingerprint mismatch, and both kinds occurred
mixed_failures ==
    /\ AllAttemptsMade
    /\ \A k \in 1..n : ~Matched(k)
    /\ \E k \in 1..n : HardError(k)
    /\ \E k \in 1..n : Mismatched(k)

\* C37: mixed failures are decided by the last attempt: once the budget is
\* exhausted after a mix of hard errors and fingerprint mismatches, a final
\* mismatch persists the original code with the metadata of that attempt, and
\* a final hard error fails the pass and persists nothing, also when an
\* earlier attempt had returned a mismatching result.
C37_LastAttemptDecides ==
    (pc \in {"ret", "raised"} /\ mixed_failures) =>
        /\ pc = "ret"
        /\ Mismatched(n) =>
              /\ writes = 1
              /\ file = update_source(runtime_lang, parser,
                                      [attempts[n].data EXCEPT !.output = request.input],
                                      request.requirements)
              /\ parse(parser, file) = parse(parser, request.input)
              /\ rv = update_txt(runtime_lang, attempts[n].data)
        /\ HardError(n) =>
              /\ rv = None
              /\ writes = 0
              /\ mode = "review" => (file = started[1] /\ ~wrote)

\* C37 witness: a mismatch followed by a hard error ended the pass with
\* nothing written
C37_Witness ==
    /\ pc = "ret" /\ mode = "review" /\ n = 2 /\ Len(attempts) = 2
    /\ Mismatched(1) /\ HardError(2)
    /\ attempts[1].data.output # request.input
    /\ rv = None /\ file = started[1]

\* ------------------------------------------------------- re-review claims
\* the review pass that followed a successful fix ended in a hard failure
rereview_failed_hard ==
    /\ mode = "fix" /\ site = "rereview"
    /\ Len(attempts) = 1 /\ HardError(1)

\* the summary of the fix under re-review, as it was added to the context
summary_in_context == SubSeq(request.context, Len(context) + 2, Len(request.context))

\* C38: a failed re-review ends the FixSession: when the single review pass
\* after a successful fix ends in a hard failure, the session returns failure
\* at once whatever budget remains, without another AI call; the artifact is
\* the one loaded before that fix, so the fixer's code is never written; and
\* the fix summary is already in the diagnostic log, right before the record
\* of the failed attempt.
C38_FailedReReview ==
    [][(pc = "ret" /\ rereview_failed_hard) =>
          /\ pc' = "done" /\ result' = None
          /\ fixCalls' = fixCalls /\ reviewCalls' = reviewCalls
          /\ retry' = retry
          /\ writes = 0 /\ file = started[1] /\ file' = file
          /\ log' = log
          /\ request.context = context \o <<NL>> \o summary_in_context
          /\ (tmp /\ summary_in_context # << >>) =>
                /\ log[logStart] = [n |-> 0, err |-> "summary",
                                    output |-> summary_in_context]
                /\ Len(log) = logStart + 1
                /\ log[logStart + 1].n = 1]_vars

\* C38 witness: with budget left, a fix whose re-review failed hard ended the
\* session; the log holds the summary and the artifact is not the fixer's code
C38_Witness ==
    /\ pc = "done" /\ rereview_failed_hard
    /\ result = None /\ retry > 1 /\ tmp
    /\ summary_in_context # << >>
    /\ log[logStart].err = "summary"
    /\ request.input = CodeB
    /\ file = started[1] /\ code_only(file) # CodeB

\* ---------------------------------------------------------- TheAI2JSON.init
\* the bound on the prompt sizes, in KB
MaxKB == 2

\* _perKB and _timeout: the default budget per KB and the base overhead
perKB == 60
base_timeout == 300

\* the timeout init returns for a timeout argument and a prompt length
ai_init(timeout, length) ==
    IF timeout <= 0
    THEN (IF timeout = 0 THEN perKB ELSE -timeout) * (length \div 1024) + base_timeout
    ELSE timeout

\* the timeout arguments of a session and the lengths of system_prompt + user_prompt
Policies == {-2, -1, 0, 30}
PromptLens == {k * 1024 + 512 : k \in 0..MaxKB}

\* a FixSession seen by its AI calls: args is the call of review, got the
\* locals of the running review(), out the last reviewer.init and its result
\* (prompt "none" before the first)
TimeoutInit ==
    /\ no_session
    /\ tasks = << >>
    /\ op = "review"
    /\ \E t \in Policies, r \in 1..MaxRetry, reviewed \in BOOLEAN :
        /\ args = [timeout |-> t, retry |-> r]
        /\ got = [timeout |-> t, retry |-> r, reviewed |-> reviewed]
        /\ out = [prompt |-> "none", length |-> 0, given |-> t, timeout |-> 0]

\* never reviewed before: self._review(request, ..., timeout, 1, tmp), which
\* calls reviewer.init itself; a failure returns None, a success restarts
\* review() with the same timeout and retry
FirstReviewCall ==
    /\ op = "review"
    /\ ~got.reviewed
    /\ \E length \in PromptLens, ok \in BOOLEAN :
        /\ out' = [prompt |-> "codereview", length |-> length, given |-> got.timeout,
                   timeout |-> ai_init(got.timeout, length)]
        /\ op' = IF ok THEN "review" ELSE "end"
        /\ got' = [got EXCEPT !.reviewed = ok]
    /\ UNCHANGED <<session, args>>

\* `if not self._to_fix(prior_review, src_path): return prior_review`
NothingToFix ==
    /\ op = "review"
    /\ got.reviewed
    /\ op' = "end"
    /\ UNCHANGED <<session, args, out, got>>

\* `args, stdin_prompt, timeout = reviewer.init("prompts/codefix.md", ...)`
\* and the exec of the fixer with it
FixCall ==
    /\ op = "review"
    /\ got.reviewed
    /\ \E length \in PromptLens :
       \E t \in {ai_init(got.timeout, length)} :
        /\ out' = [prompt |-> "codefix", length |-> length, given |-> got.timeout,
                   timeout |-> t]
        /\ got' = [got EXCEPT !.timeout = t]
    /\ op' = "fixed"
    /\ UNCHANGED <<session, args>>

\* the fix failed: return None, or self.review(..., timeout, retry - 1, tmp)
FixCallFailed ==
    /\ op = "fixed"
    /\ IF got.retry <= 1
       THEN op' = "end" /\ got' = got
       ELSE op' = "review" /\ got' = [got EXCEPT !.retry = @ - 1]
    /\ UNCHANGED <<session, args, out>>

\* `prior_review = self._review(request, ..., timeout, 1, tmp)` on the fixed code
ReReviewCall ==
    /\ op = "fixed"
    /\ \E length \in PromptLens :
        out' = [prompt |-> "codereview", length |-> length, given |-> got.timeout,
                timeout |-> ai_init(got.timeout, length)]
    /\ op' = "rereviewed"
    /\ UNCHANGED <<session, args, got>>

\* the re-review failed, or `retry <= 1 or not self._to_fix(prior_review)`
ReReviewEnd ==
    /\ op = "rereviewed"
    /\ op' = "end"
    /\ UNCHANGED <<session, args, out, got>>

\* `return self.review(..., timeout, retry - 1, tmp)` after the re-review
RestartCall ==
    /\ op = "rereviewed"
    /\ got.retry > 1
    /\ got' = [got EXCEPT !.retry = @ - 1]
    /\ op' = "review"
    /\ UNCHANGED <<session, args, out>>

TimeoutNext ==
    \/ FirstReviewCall
    \/ NothingToFix
    \/ FixCall
    \/ FixCallFailed
    \/ ReReviewCall
    \/ ReReviewEnd
    \/ RestartCall

TimeoutSpec == TimeoutInit /\ [][TimeoutNext]_vars

\* C39: the timeout policy is kept across the fix loop: in a FixSession
\* started with a size-proportional policy (timeout <= 0), every AI call of
\* the session, fix call or review pass, receives the effective timeout
\* computed from that policy and from the length of its own prompt.
C39_TimeoutPolicy ==
    (out.prompt # "none" /\ args.timeout <= 0) =>
        out.timeout = ai_init(args.timeout, out.length)

====
